---- MODULE Spec2Model ----
(***************************************************************************)
(* Verification model of fire-protect-api: the multi-factor risk scoring   *)
(* engine (src/main.py and src/advanced_scoring.py, class                  *)
(* AdvancedScoringSystem) and the request paths around it.                 *)
(*                                                                         *)
(* A text is a Python str: a sequence of Unicode code points.  The model   *)
(* writes every character as its code point (ord), so '殺す' is            *)
(* <<27578, 12377>>; each table below carries the source literal in a      *)
(* comment above its encoding.                                             *)
(***************************************************************************)
EXTENDS Integers, Sequences, FiniteSets, TLC

VARIABLES
    scoring_system,   \* the AdvancedScoringSystem instance: its class and the four tables on self
    text,             \* the text under analysis
    risk_score,       \* RiskScore of the latest analyze_text(text), NoScore before the first
    first_score,      \* RiskScore of the first analyze_text(text)
    recommendations,  \* latest get_recommendations(risk_score), NoRecommendations before
    aux_text,         \* text of the latest analyze_text call on another text, NoText before
    aux_score,        \* RiskScore of that call
    recalled,         \* TRUE once text was analysed again after a call on another text
    entry,            \* the deployed service: "main", "main_simple" or "api" ("none": engine only)
    db_status,        \* the incident store enjo_cases.db: "ok", "missing" or "unreadable"
    enjo_cases,       \* the rows of table enjo_cases
    response,         \* the response to the request in hand, NoResponse before
    invoked,          \* the collaborators the handler of that request called: "scorer", "store"
    calls,            \* the engine calls in flight in concurrent handlers, one record per handler
    op_args,          \* arguments of one engine method called on its own, NoArgs if none
    op_result,        \* what that method returned, NoResult before
    learning_data     \* FeedbackLearningSystem.learning_data, as saved in feedback_data.json

service_vars == << entry, db_status, enjo_cases, response, invoked >>

other_vars == << calls, op_args, op_result, learning_data >>

vars == << scoring_system, text, risk_score, first_score, recommendations,
           aux_text, aux_score, recalled, entry, db_status, enjo_cases, response,
           invoked, calls, op_args, op_result, learning_data >>

(***************************************************************************)
(* Bounds of the model.                                                    *)
(***************************************************************************)
\* longest text built from the vocabulary (the request layer allows 1000)
MaxTextLen == 3

\* src/main.py, AdvancedScoringSystem.__init__: self.risk_patterns
main_risk_patterns ==
  <<
    [ tier |-> "extreme_risk", weight |-> 4, base_score |-> 95,
      patterns |-> <<
        \* r'殺害|殺す|死ね|死ぬ|殺人|殺し|殺して|殺せ'
        << <<27578,23475>>, <<27578,12377>>, <<27515,12397>>, <<27515,12396>>, <<27578,20154>>,
           <<27578,12375>>, <<27578,12375,12390>>, <<27578,12379>> >>,
        \* r'老人|高齢者|年寄り|お年寄り'
        << <<32769,20154>>, <<39640,40802,32773>>, <<24180,23492,12426>>,
           <<12362,24180,23492,12426>> >>,
        \* r'障害者|障がい者|身体障害|知的障害'
        << <<38556,23475,32773>>, <<38556,12364,12356,32773>>, <<36523,20307,38556,23475>>,
           <<30693,30340,38556,23475>> >>,
        \* r'外国人|移民|在日|朝鮮|中国|韓国'
        << <<22806,22269,20154>>, <<31227,27665>>, <<22312,26085>>, <<26397,39854>>,
           <<20013,22269>>, <<38867,22269>> >>,
        \* r'女性|男性|男|女|性別|結婚|妊娠|LGBT|ゲイ|レズ'
        << <<22899,24615>>, <<30007,24615>>, <<30007>>, <<22899>>, <<24615,21029>>,
           <<32080,23130>>, <<22922,23072>>, <<76,71,66,84>>, <<12466,12452>>, <<12524,12474>> >>,
        \* r'暴力|暴行|殴る|蹴る|叩く|痛めつける'
        << <<26292,21147>>, <<26292,34892>>, <<27572,12427>>, <<36468,12427>>, <<21481,12367>>,
           <<30171,12417,12388,12369,12427>> >>,
        \* r'差別|偏見|見下す|馬鹿|アホ|バカ|クズ|ゴミ'
        << <<24046,21029>>, <<20559,35211>>, <<35211,19979,12377>>, <<39340,40575>>,
           <<12450,12507>>, <<12496,12459>>, <<12463,12474>>, <<12468,12511>> >>
      >> ],
    [ tier |-> "high_risk", weight |-> 3, base_score |-> 80,
      patterns |-> <<
        \* r'クソ|くそ|最悪|ひどい|ダメ|だめ|やばい'
        << <<12463,12477>>, <<12367,12381>>, <<26368,24746>>, <<12402,12393,12356>>,
           <<12480,12513>>, <<12384,12417>>, <<12420,12400,12356>> >>,
        \* r'パクリ|盗作|コピー|真似'
        << <<12497,12463,12522>>, <<30423,20316>>, <<12467,12500,12540>>, <<30495,20284>> >>,
        \* r'住所|電話|個人情報|名前|メール'
        << <<20303,25152>>, <<38651,35441>>, <<20491,20154,24773,22577>>, <<21517,21069>>,
           <<12513,12540,12523>> >>,
        \* r'残業|給料|労働|働く|従業員'
        << <<27531,26989>>, <<32102,26009>>, <<21172,20685>>, <<20685,12367>>,
           <<24467,26989,21729>> >>,
        \* r'完璧|問題ない|デマ|嘘|隠蔽'
        << <<23436,29863>>, <<21839,38988,12394,12356>>, <<12487,12510>>, <<22040>>,
           <<38560,34109>> >>,
        \* r'うざい|うっとうしい|邪魔|迷惑'
        << <<12358,12374,12356>>, <<12358,12387,12392,12358,12375,12356>>, <<37034,39764>>,
           <<36855,24785>> >>,
        \* r'消えろ|消えて|出て行け|帰れ'
        << <<28040,12360,12429>>, <<28040,12360,12390>>, <<20986,12390,34892,12369>>,
           <<24112,12428>> >>
      >> ],
    [ tier |-> "medium_risk", weight |-> 2, base_score |-> 50,
      patterns |-> <<
        \* r'環境|地球|温暖化|CO2|エコ'
        << <<29872,22659>>, <<22320,29699>>, <<28201,26262,21270>>, <<67,79,50>>,
           <<12456,12467>> >>,
        \* r'税金|政治|政府|国|社会'
        << <<31246,37329>>, <<25919,27835>>, <<25919,24220>>, <<22269>>, <<31038,20250>> >>,
        \* r'アニメ|ゲーム|趣味|文化|遅れ'
        << <<12450,12491,12513>>, <<12466,12540,12512>>, <<36259,21619>>, <<25991,21270>>,
           <<36933,12428>> >>,
        \* r'競合|他社|ライバル|対抗'
        << <<31478,21512>>, <<20182,31038>>, <<12521,12452,12496,12523>>, <<23550,25239>> >>,
        \* r'宗教|信仰|信者|信教'
        << <<23447,25945>>, <<20449,20208>>, <<20449,32773>>, <<20449,25945>> >>,
        \* r'民族|人種|肌の色|出身'
        << <<27665,26063>>, <<20154,31278>>, <<32908,12398,33394>>, <<20986,36523>> >>
      >> ],
    [ tier |-> "low_risk", weight |-> 1, base_score |-> 20,
      patterns |-> <<
        \* r'すごい|素晴らしい|最高|良い'
        << <<12377,12372,12356>>, <<32032,26228,12425,12375,12356>>, <<26368,39640>>,
           <<33391,12356>> >>,
        \* r'お客様|顧客|ユーザー'
        << <<12362,23458,27096>>, <<39015,23458>>, <<12518,12540,12470,12540>> >>,
        \* r'品質|サービス|商品'
        << <<21697,36074>>, <<12469,12540,12499,12473>>, <<21830,21697>> >>
      >> ]
  >>

\* src/main.py: self.legal_risk_factors
main_legal_risk_factors ==
  <<
    \* '労働基準法': ['残業', '給料', '労働', '働く', '従業員']
    << <<27531,26989>>, <<32102,26009>>, <<21172,20685>>, <<20685,12367>>,
       <<24467,26989,21729>> >>,
    \* '個人情報保護法': ['住所', '電話', '個人情報', '名前', 'メール']
    << <<20303,25152>>, <<38651,35441>>, <<20491,20154,24773,22577>>, <<21517,21069>>,
       <<12513,12540,12523>> >>,
    \* '差別禁止法': ['女性', '男性', '男', '女', '性別', '結婚', '妊娠', '老人', '高齢者', '障害者', '外国人', '移民']
    << <<22899,24615>>, <<30007,24615>>, <<30007>>, <<22899>>, <<24615,21029>>,
       <<32080,23130>>, <<22922,23072>>, <<32769,20154>>, <<39640,40802,32773>>,
       <<38556,23475,32773>>, <<22806,22269,20154>>, <<31227,27665>> >>,
    \* '名誉毀損': ['パクリ', '盗作', 'コピー', '真似', '卑劣']
    << <<12497,12463,12522>>, <<30423,20316>>, <<12467,12500,12540>>, <<30495,20284>>,
       <<21329,21155>> >>,
    \* '脅迫罪': ['殺害', '殺す', '死ね', '死ぬ', '殺人', '暴力', '暴行', '殴る', '蹴る']
    << <<27578,23475>>, <<27578,12377>>, <<27515,12397>>, <<27515,12396>>, <<27578,20154>>,
       <<26292,21147>>, <<26292,34892>>, <<27572,12427>>, <<36468,12427>> >>,
    \* '侮辱罪': ['馬鹿', 'アホ', 'バカ', 'クズ', 'ゴミ', 'うざい', 'うっとうしい']
    << <<39340,40575>>, <<12450,12507>>, <<12496,12459>>, <<12463,12474>>, <<12468,12511>>,
       <<12358,12374,12356>>, <<12358,12387,12392,12358,12375,12356>> >>
  >>

\* src/main.py: self.brand_risk_factors
main_brand_risk_factors ==
  <<
    \* '企業イメージ': ['クソ', 'くそ', '最悪', 'ひどい', 'ダメ', 'だめ', '殺害', '殺す', '死ね', '暴力']
    << <<12463,12477>>, <<12367,12381>>, <<26368,24746>>, <<12402,12393,12356>>,
       <<12480,12513>>, <<12384,12417>>, <<27578,23475>>, <<27578,12377>>, <<27515,12397>>,
       <<26292,21147>> >>,
    \* '顧客信頼': ['嘘', 'デマ', '隠蔽', '問題ない', '完璧', '差別', '偏見']
    << <<22040>>, <<12487,12510>>, <<38560,34109>>, <<21839,38988,12394,12356>>,
       <<23436,29863>>, <<24046,21029>>, <<20559,35211>> >>,
    \* '社会的責任': ['環境', '地球', '温暖化', 'CO2', 'エコ', '老人', '高齢者', '障害者', '外国人']
    << <<29872,22659>>, <<22320,29699>>, <<28201,26262,21270>>, <<67,79,50>>, <<12456,12467>>,
       <<32769,20154>>, <<39640,40802,32773>>, <<38556,23475,32773>>, <<22806,22269,20154>> >>,
    \* '人権問題': ['差別', '偏見', '見下す', '馬鹿', 'アホ', 'バカ', 'クズ', 'ゴミ']
    << <<24046,21029>>, <<20559,35211>>, <<35211,19979,12377>>, <<39340,40575>>,
       <<12450,12507>>, <<12496,12459>>, <<12463,12474>>, <<12468,12511>> >>
  >>

\* src/main.py: self.social_risk_factors
main_social_risk_factors ==
  <<
    \* '炎上拡散': ['やばい', '最悪', 'ひどい', '問題', '殺害', '殺す', '死ね', '暴力']
    << <<12420,12400,12356>>, <<26368,24746>>, <<12402,12393,12356>>, <<21839,38988>>,
       <<27578,23475>>, <<27578,12377>>, <<27515,12397>>, <<26292,21147>> >>,
    \* '批判集中': ['差別', '誹謗', '中傷', '攻撃', '老人', '高齢者', '障害者', '外国人']
    << <<24046,21029>>, <<35513,35607>>, <<20013,20663>>, <<25915,25731>>, <<32769,20154>>,
       <<39640,40802,32773>>, <<38556,23475,32773>>, <<22806,22269,20154>> >>,
    \* '社会問題': ['税金', '政治', '政府', '国', '社会', '差別', '偏見', '人権']
    << <<31246,37329>>, <<25919,27835>>, <<25919,24220>>, <<22269>>, <<31038,20250>>,
       <<24046,21029>>, <<20559,35211>>, <<20154,27177>> >>,
    \* '人権侵害': ['老人', '高齢者', '障害者', '外国人', '移民', '女性', '男性', 'LGBT']
    << <<32769,20154>>, <<39640,40802,32773>>, <<38556,23475,32773>>, <<22806,22269,20154>>,
       <<31227,27665>>, <<22899,24615>>, <<30007,24615>>, <<76,71,66,84>> >>
  >>

\* src/main.py, _identify_category: the local table `categories`
main_categories ==
  <<
    \* '極めて危険な表現': ['殺害', '殺す', '死ね', '死ぬ', '殺人', '暴力', '暴行']
    [ category |-> <<26997,12417,12390,21361,38522,12394,34920,29694>>,
      keywords |-> << <<27578,23475>>, <<27578,12377>>, <<27515,12397>>, <<27515,12396>>,
                      <<27578,20154>>, <<26292,21147>>, <<26292,34892>> >> ],
    \* '差別的表現': ['女性', '男性', '男', '女', '性別', '結婚', '妊娠', '老人', '高齢者', '障害者', '外国人', '移民', 'LGBT']
    [ category |-> <<24046,21029,30340,34920,29694>>,
      keywords |-> << <<22899,24615>>, <<30007,24615>>, <<30007>>, <<22899>>, <<24615,21029>>,
                      <<32080,23130>>, <<22922,23072>>, <<32769,20154>>, <<39640,40802,32773>>,
                      <<38556,23475,32773>>, <<22806,22269,20154>>, <<31227,27665>>,
                      <<76,71,66,84>> >> ],
    \* '誹謗中傷': ['パクリ', '盗作', 'コピー', '真似', '卑劣', '馬鹿', 'アホ', 'バカ', 'クズ', 'ゴミ']
    [ category |-> <<35513,35607,20013,20663>>,
      keywords |-> << <<12497,12463,12522>>, <<30423,20316>>, <<12467,12500,12540>>,
                      <<30495,20284>>, <<21329,21155>>, <<39340,40575>>, <<12450,12507>>,
                      <<12496,12459>>, <<12463,12474>>, <<12468,12511>> >> ],
    \* '個人情報漏洩': ['住所', '電話', '個人情報', '名前', 'メール']
    [ category |-> <<20491,20154,24773,22577,28431,27945>>,
      keywords |-> << <<20303,25152>>, <<38651,35441>>, <<20491,20154,24773,22577>>,
                      <<21517,21069>>, <<12513,12540,12523>> >> ],
    \* '労働問題': ['残業', '給料', '労働', '働く', '従業員']
    [ category |-> <<21172,20685,21839,38988>>,
      keywords |-> << <<27531,26989>>, <<32102,26009>>, <<21172,20685>>, <<20685,12367>>,
                      <<24467,26989,21729>> >> ],
    \* '不適切な表現': ['クソ', 'くそ', '最悪', 'ひどい', 'ダメ', 'だめ', 'うざい', 'うっとうしい']
    [ category |-> <<19981,36969,20999,12394,34920,29694>>,
      keywords |-> << <<12463,12477>>, <<12367,12381>>, <<26368,24746>>, <<12402,12393,12356>>,
                      <<12480,12513>>, <<12384,12417>>, <<12358,12374,12356>>,
                      <<12358,12387,12392,12358,12375,12356>> >> ],
    \* '情報隠蔽': ['完璧', '問題ない', 'デマ', '嘘', '隠蔽']
    [ category |-> <<24773,22577,38560,34109>>,
      keywords |-> << <<23436,29863>>, <<21839,38988,12394,12356>>, <<12487,12510>>, <<22040>>,
                      <<38560,34109>> >> ],
    \* '社会的責任の欠如': ['環境', '地球', '温暖化', 'CO2', 'エコ']
    [ category |-> <<31038,20250,30340,36012,20219,12398,27424,22914>>,
      keywords |-> << <<29872,22659>>, <<22320,29699>>, <<28201,26262,21270>>, <<67,79,50>>,
                      <<12456,12467>> >> ],
    \* '社会問題への偏見': ['税金', '政治', '政府', '国', '社会']
    [ category |-> <<31038,20250,21839,38988,12408,12398,20559,35211>>,
      keywords |-> << <<31246,37329>>, <<25919,27835>>, <<25919,24220>>, <<22269>>,
                      <<31038,20250>> >> ],
    \* '趣味嗜好への差別': ['アニメ', 'ゲーム', '趣味', '文化', '遅れ']
    [ category |-> <<36259,21619,21980,22909,12408,12398,24046,21029>>,
      keywords |-> << <<12450,12491,12513>>, <<12466,12540,12512>>, <<36259,21619>>,
                      <<25991,21270>>, <<36933,12428>> >> ],
    \* '人権侵害': ['差別', '偏見', '見下す', '老人', '高齢者', '障害者', '外国人']
    [ category |-> <<20154,27177,20405,23475>>,
      keywords |-> << <<24046,21029>>, <<20559,35211>>, <<35211,19979,12377>>, <<32769,20154>>,
                      <<39640,40802,32773>>, <<38556,23475,32773>>, <<22806,22269,20154>> >> ]
  >>

\* src/advanced_scoring.py, AdvancedScoringSystem.__init__: self.risk_patterns
adv_risk_patterns ==
  <<
    [ tier |-> "high_risk", weight |-> 3, base_score |-> 80,
      patterns |-> <<
        \* r'クソ|くそ|最悪|ひどい|ダメ|だめ|やばい'
        << <<12463,12477>>, <<12367,12381>>, <<26368,24746>>, <<12402,12393,12356>>,
           <<12480,12513>>, <<12384,12417>>, <<12420,12400,12356>> >>,
        \* r'女性|男性|男|女|性別|結婚|妊娠'
        << <<22899,24615>>, <<30007,24615>>, <<30007>>, <<22899>>, <<24615,21029>>,
           <<32080,23130>>, <<22922,23072>> >>,
        \* r'パクリ|盗作|コピー|真似'
        << <<12497,12463,12522>>, <<30423,20316>>, <<12467,12500,12540>>, <<30495,20284>> >>,
        \* r'住所|電話|個人情報|名前|メール'
        << <<20303,25152>>, <<38651,35441>>, <<20491,20154,24773,22577>>, <<21517,21069>>,
           <<12513,12540,12523>> >>,
        \* r'残業|給料|労働|働く|従業員'
        << <<27531,26989>>, <<32102,26009>>, <<21172,20685>>, <<20685,12367>>,
           <<24467,26989,21729>> >>,
        \* r'完璧|問題ない|デマ|嘘|隠蔽'
        << <<23436,29863>>, <<21839,38988,12394,12356>>, <<12487,12510>>, <<22040>>,
           <<38560,34109>> >>
      >> ],
    [ tier |-> "medium_risk", weight |-> 2, base_score |-> 50,
      patterns |-> <<
        \* r'環境|地球|温暖化|CO2|エコ'
        << <<29872,22659>>, <<22320,29699>>, <<28201,26262,21270>>, <<67,79,50>>,
           <<12456,12467>> >>,
        \* r'税金|政治|政府|国|社会'
        << <<31246,37329>>, <<25919,27835>>, <<25919,24220>>, <<22269>>, <<31038,20250>> >>,
        \* r'アニメ|ゲーム|趣味|文化|遅れ'
        << <<12450,12491,12513>>, <<12466,12540,12512>>, <<36259,21619>>, <<25991,21270>>,
           <<36933,12428>> >>,
        \* r'競合|他社|ライバル|対抗'
        << <<31478,21512>>, <<20182,31038>>, <<12521,12452,12496,12523>>, <<23550,25239>> >>
      >> ],
    [ tier |-> "low_risk", weight |-> 1, base_score |-> 20,
      patterns |-> <<
        \* r'すごい|素晴らしい|最高|良い'
        << <<12377,12372,12356>>, <<32032,26228,12425,12375,12356>>, <<26368,39640>>,
           <<33391,12356>> >>,
        \* r'お客様|顧客|ユーザー'
        << <<12362,23458,27096>>, <<39015,23458>>, <<12518,12540,12470,12540>> >>,
        \* r'品質|サービス|商品'
        << <<21697,36074>>, <<12469,12540,12499,12473>>, <<21830,21697>> >>
      >> ]
  >>

\* src/advanced_scoring.py: self.legal_risk_factors
adv_legal_risk_factors ==
  <<
    \* '労働基準法': ['残業', '給料', '労働', '働く', '従業員']
    << <<27531,26989>>, <<32102,26009>>, <<21172,20685>>, <<20685,12367>>,
       <<24467,26989,21729>> >>,
    \* '個人情報保護法': ['住所', '電話', '個人情報', '名前', 'メール']
    << <<20303,25152>>, <<38651,35441>>, <<20491,20154,24773,22577>>, <<21517,21069>>,
       <<12513,12540,12523>> >>,
    \* '差別禁止法': ['女性', '男性', '男', '女', '性別', '結婚', '妊娠']
    << <<22899,24615>>, <<30007,24615>>, <<30007>>, <<22899>>, <<24615,21029>>,
       <<32080,23130>>, <<22922,23072>> >>,
    \* '名誉毀損': ['パクリ', '盗作', 'コピー', '真似', '卑劣']
    << <<12497,12463,12522>>, <<30423,20316>>, <<12467,12500,12540>>, <<30495,20284>>,
       <<21329,21155>> >>
  >>

\* src/advanced_scoring.py: self.brand_risk_factors
adv_brand_risk_factors ==
  <<
    \* '企業イメージ': ['クソ', 'くそ', '最悪', 'ひどい', 'ダメ', 'だめ']
    << <<12463,12477>>, <<12367,12381>>, <<26368,24746>>, <<12402,12393,12356>>,
       <<12480,12513>>, <<12384,12417>> >>,
    \* '顧客信頼': ['嘘', 'デマ', '隠蔽', '問題ない', '完璧']
    << <<22040>>, <<12487,12510>>, <<38560,34109>>, <<21839,38988,12394,12356>>,
       <<23436,29863>> >>,
    \* '社会的責任': ['環境', '地球', '温暖化', 'CO2', 'エコ']
    << <<29872,22659>>, <<22320,29699>>, <<28201,26262,21270>>, <<67,79,50>>, <<12456,12467>> >>
  >>

\* src/advanced_scoring.py: self.social_risk_factors
adv_social_risk_factors ==
  <<
    \* '炎上拡散': ['やばい', '最悪', 'ひどい', '問題']
    << <<12420,12400,12356>>, <<26368,24746>>, <<12402,12393,12356>>, <<21839,38988>> >>,
    \* '批判集中': ['差別', '誹謗', '中傷', '攻撃']
    << <<24046,21029>>, <<35513,35607>>, <<20013,20663>>, <<25915,25731>> >>,
    \* '社会問題': ['税金', '政治', '政府', '国', '社会']
    << <<31246,37329>>, <<25919,27835>>, <<25919,24220>>, <<22269>>, <<31038,20250>> >>
  >>

\* src/advanced_scoring.py, _identify_category: the local table `categories`
adv_categories ==
  <<
    \* '差別的表現': ['女性', '男性', '男', '女', '性別', '結婚', '妊娠']
    [ category |-> <<24046,21029,30340,34920,29694>>,
      keywords |-> << <<22899,24615>>, <<30007,24615>>, <<30007>>, <<22899>>, <<24615,21029>>,
                      <<32080,23130>>, <<22922,23072>> >> ],
    \* '誹謗中傷': ['パクリ', '盗作', 'コピー', '真似', '卑劣']
    [ category |-> <<35513,35607,20013,20663>>,
      keywords |-> << <<12497,12463,12522>>, <<30423,20316>>, <<12467,12500,12540>>,
                      <<30495,20284>>, <<21329,21155>> >> ],
    \* '個人情報漏洩': ['住所', '電話', '個人情報', '名前', 'メール']
    [ category |-> <<20491,20154,24773,22577,28431,27945>>,
      keywords |-> << <<20303,25152>>, <<38651,35441>>, <<20491,20154,24773,22577>>,
                      <<21517,21069>>, <<12513,12540,12523>> >> ],
    \* '労働問題': ['残業', '給料', '労働', '働く', '従業員']
    [ category |-> <<21172,20685,21839,38988>>,
      keywords |-> << <<27531,26989>>, <<32102,26009>>, <<21172,20685>>, <<20685,12367>>,
                      <<24467,26989,21729>> >> ],
    \* '不適切な表現': ['クソ', 'くそ', '最悪', 'ひどい', 'ダメ', 'だめ']
    [ category |-> <<19981,36969,20999,12394,34920,29694>>,
      keywords |-> << <<12463,12477>>, <<12367,12381>>, <<26368,24746>>, <<12402,12393,12356>>,
                      <<12480,12513>>, <<12384,12417>> >> ],
    \* '情報隠蔽': ['完璧', '問題ない', 'デマ', '嘘', '隠蔽']
    [ category |-> <<24773,22577,38560,34109>>,
      keywords |-> << <<23436,29863>>, <<21839,38988,12394,12356>>, <<12487,12510>>, <<22040>>,
                      <<38560,34109>> >> ],
    \* '社会的責任の欠如': ['環境', '地球', '温暖化', 'CO2', 'エコ']
    [ category |-> <<31038,20250,30340,36012,20219,12398,27424,22914>>,
      keywords |-> << <<29872,22659>>, <<22320,29699>>, <<28201,26262,21270>>, <<67,79,50>>,
                      <<12456,12467>> >> ],
    \* '社会問題への偏見': ['税金', '政治', '政府', '国', '社会']
    [ category |-> <<31038,20250,21839,38988,12408,12398,20559,35211>>,
      keywords |-> << <<31246,37329>>, <<25919,27835>>, <<25919,24220>>, <<22269>>,
                      <<31038,20250>> >> ],
    \* '趣味嗜好への差別': ['アニメ', 'ゲーム', '趣味', '文化', '遅れ']
    [ category |-> <<36259,21619,21980,22909,12408,12398,24046,21029>>,
      keywords |-> << <<12450,12491,12513>>, <<12466,12540,12512>>, <<36259,21619>>,
                      <<25991,21270>>, <<36933,12428>> >> ]
  >>

(***************************************************************************)
(* Strings and the two matching primitives of the source:                  *)
(* re.findall(pattern, text, re.IGNORECASE) and `keyword in text`.         *)
(***************************************************************************)
Min(a, b) == IF a <= b THEN a ELSE b
Range(q) == { q[i] : i \in DOMAIN q }

\* re.IGNORECASE on the characters of the catalog: ASCII letters fold, kana and kanji have no case
Lower(c) == IF c \in 65..90 THEN c + 32 ELSE c

\* the literal `word` stands in `s` at position i (1-based)
SameChar(c, d, ignorecase) == IF ignorecase THEN Lower(c) = Lower(d) ELSE c = d

MatchesAt(word, s, i, ignorecase) ==
    /\ i + Len(word) - 1 <= Len(s)
    /\ SameChar(s[i], word[1], ignorecase)
    /\ \A j \in 2..Len(word) : SameChar(s[i + j - 1], word[j], ignorecase)

\* a pattern is an alternation of literals; at one position the regex engine
\* takes the first alternative (in pattern order) that matches; 0 if none does
FirstAlternative(pattern, s, i, ignorecase) ==
    LET hit == { a \in 1..Len(pattern) : MatchesAt(pattern[a], s, i, ignorecase) }
    IN  IF hit = {} THEN 0 ELSE CHOOSE a \in hit : \A b \in hit : a <= b

\* re.findall: the non-overlapping matches, scanning left to right from position i
RECURSIVE findall_from(_, _, _, _)
findall_from(pattern, s, i, ignorecase) ==
    IF i > Len(s) THEN << >>
    ELSE LET a == FirstAlternative(pattern, s, i, ignorecase)
         IN  IF a = 0 THEN findall_from(pattern, s, i + 1, ignorecase)
             ELSE << SubSeq(s, i, i + Len(pattern[a]) - 1) >>
                    \o findall_from(pattern, s, i + Len(pattern[a]), ignorecase)

re_findall(pattern, s, ignorecase) == findall_from(pattern, s, 1, ignorecase)

\* mutant: the keyword counts only when it occurs exactly once
str_contains_once(keyword, s) ==
    Cardinality({ i \in 1..Len(s) : MatchesAt(keyword, s, i, FALSE) }) = 1

\* `keyword in text`: case-sensitive substring test
str_contains(keyword, s) == \E i \in 1..Len(s) : MatchesAt(keyword, s, i, FALSE)

RECURSIVE SumSeq(_)
SumSeq(q) == IF q = << >> THEN 0 ELSE Head(q) + SumSeq(Tail(q))

(***************************************************************************)
(* AdvancedScoringSystem                                                   *)
(***************************************************************************)
\* mutant: the medium tier of main.py weighs 1.0
MainScoringSystem_light_medium ==
    [ class |-> "main",
      risk_patterns |-> [ main_risk_patterns EXCEPT ![3].weight = 1 ],
      legal_risk_factors |-> main_legal_risk_factors,
      brand_risk_factors |-> main_brand_risk_factors,
      social_risk_factors |-> main_social_risk_factors ]

\* the state __init__ leaves on self, for each of the two classes
MainScoringSystem ==
    [ class |-> "main",
      risk_patterns |-> main_risk_patterns,
      legal_risk_factors |-> main_legal_risk_factors,
      brand_risk_factors |-> main_brand_risk_factors,
      social_risk_factors |-> main_social_risk_factors ]

AdvScoringSystem ==
    [ class |-> "advanced_scoring",
      risk_patterns |-> adv_risk_patterns,
      legal_risk_factors |-> adv_legal_risk_factors,
      brand_risk_factors |-> adv_brand_risk_factors,
      social_risk_factors |-> adv_social_risk_factors ]

\* the table local to _identify_category of self's class
categories(self) == IF self.class = "main" THEN main_categories ELSE adv_categories

\* mutant: a match found twice counts once
pattern_matches_distinct(self, s) ==
    [ t \in DOMAIN self.risk_patterns |->
        [ p \in DOMAIN self.risk_patterns[t].patterns |->
            Cardinality(Range(re_findall(self.risk_patterns[t].patterns[p], s, TRUE))) ] ]

\* matches[t][p] = len(re.findall(pattern p of tier t, text, re.IGNORECASE))
pattern_matches(self, s) ==
    [ t \in DOMAIN self.risk_patterns |->
        [ p \in DOMAIN self.risk_patterns[t].patterns |->
            Len(re_findall(self.risk_patterns[t].patterns[p], s, TRUE)) ] ]

\* total_matches of _calculate_content_risk, keyword_count of _calculate_confidence
total_matches(m) == SumSeq([ t \in DOMAIN m |-> SumSeq(m[t]) ])

\* min(100, int(score / total_matches)), 10 without a match, from the match
\* counts m.  The weights are the floats 4.0 .. 1.0, every product and sum is a
\* whole number, so the float quotient truncates to the integer quotient.
\* mutant: no default for a text without a match
content_risk_of_nodefault(self, m) ==
    LET score == SumSeq([ t \in DOMAIN m |->
                    SumSeq(m[t]) * self.risk_patterns[t].weight
                                 * self.risk_patterns[t].base_score ])
        total == total_matches(m)
    IN  IF total = 0 THEN 0 ELSE Min(100, score \div total)

\* mutant: the average is returned without the cap
content_risk_of_uncapped(self, m) ==
    LET score == SumSeq([ t \in DOMAIN m |->
                    SumSeq(m[t]) * self.risk_patterns[t].weight
                                 * self.risk_patterns[t].base_score ])
        total == total_matches(m)
    IN  IF total = 0 THEN 10 ELSE score \div total

\* mutant: the base scores are averaged without their weights
content_risk_of_unweighted(self, m) ==
    LET score == SumSeq([ t \in DOMAIN m |->
                    SumSeq(m[t]) * self.risk_patterns[t].base_score ])
        total == total_matches(m)
    IN  IF total = 0 THEN 10 ELSE Min(100, score \div total)

content_risk_of(self, m) ==
    LET score == SumSeq([ t \in DOMAIN m |->
                    SumSeq(m[t]) * self.risk_patterns[t].weight
                                 * self.risk_patterns[t].base_score ])
        total == total_matches(m)
    IN  IF total = 0 THEN 10 ELSE Min(100, score \div total)

calculate_content_risk(self, s) == content_risk_of(self, pattern_matches(self, s))

\* mutant: a keyword listed under several factors counts once
factor_hits_distinct(table, s) ==
    Cardinality(UNION { { table[f][k] : k \in { j \in DOMAIN table[f] : str_contains(table[f][j], s) } } :
                        f \in DOMAIN table })

\* number of (factor, keyword) entries of a table whose keyword is in the text
factor_hits(table, s) ==
    SumSeq([ f \in DOMAIN table |->
        Cardinality({ k \in DOMAIN table[f] : str_contains(table[f][k], s) }) ])

\* mutant: the sum is returned without the clamp
clamp_factor_unclamped(score) == score

\* min(100, score) after `score += increment` per hit
clamp_factor(score) == Min(100, score)

calculate_legal_risk(self, s)  == clamp_factor(20 * factor_hits(self.legal_risk_factors, s))
calculate_brand_risk(self, s)  == clamp_factor(15 * factor_hits(self.brand_risk_factors, s))
calculate_social_risk(self, s) == clamp_factor(10 * factor_hits(self.social_risk_factors, s))

\* sum(score * weight ...) runs in binary floating point, left to right from
\* 0: 0.4, 0.3, 0.2 and 0.1 are not exact and each sum is rounded.  Where
\* the exact sum is a whole number the float sum can end just below it:
\* 0*0.4 + 3*0.3 + 0*0.2 + 1*0.1 is 0.9999999999999999.  The table lists
\* every <<content, legal, brand, social>> with scores in 0..8 or 100 whose
\* float sum truncates to one less than floor((4c + 3l + 2b + s) / 10); the
\* float sum never truncates to more, and no combination that analyze_text
\* passes (legal a multiple of 20, brand a multiple of 15 or 100, social a
\* multiple of 10) is such a case.
OverallRoundsDown ==
  {
    <<0,3,0,1>>, <<0,6,0,2>>, <<0,6,1,0>>, <<0,6,4,4>>, <<1,1,1,1>>, <<1,3,1,5>>, <<1,3,2,3>>,
    <<1,6,2,4>>, <<1,6,7,4>>, <<1,8,4,4>>, <<1,100,1,4>>, <<1,100,2,2>>, <<1,100,6,4>>,
    <<1,100,7,2>>, <<2,2,2,2>>, <<2,6,0,4>>, <<2,6,2,0>>, <<2,6,4,6>>, <<2,6,5,4>>,
    <<2,6,8,8>>, <<3,100,2,4>>, <<4,4,4,4>>, <<5,7,3,3>>, <<5,7,4,1>>, <<5,7,8,3>>,
    <<6,100,4,8>>, <<7,6,3,8>>, <<7,6,8,8>>, <<7,100,2,8>>, <<7,100,4,4>>, <<7,100,7,8>>,
    <<8,3,3,3>>, <<8,3,4,1>>, <<8,3,8,3>>, <<8,8,3,8>>, <<8,8,8,8>>, <<100,1,2,3>>,
    <<100,1,7,3>>, <<100,3,4,3>>, <<100,6,2,8>>, <<100,6,4,4>>, <<100,6,7,8>>, <<100,8,4,8>>
  }

\* mutant: the weighted sum is rounded up
calculate_overall_score_ceil(content, legal, brand, social) ==
    (4 * content + 3 * legal + 2 * brand + social + 9) \div 10

\* int(0.4*content + 0.3*legal + 0.2*brand + 0.1*social)
calculate_overall_score(content, legal, brand, social) ==
    ((4 * content + 3 * legal + 2 * brand + social) \div 10)
      - (IF << content, legal, brand, social >> \in OverallRoundsDown THEN 1 ELSE 0)

\* 'その他'
OtherCategory == << 12381, 12398, 20182 >>

\* category_scores[c] = number of keywords of category c that are in the text
category_scores(self, s) ==
    [ c \in DOMAIN categories(self) |->
        Cardinality({ k \in DOMAIN categories(self)[c].keywords :
                        str_contains(categories(self)[c].keywords[k], s) }) ]

\* mutant: a later key with an equal value replaces the best one
RECURSIVE python_max_last(_, _, _)
python_max_last(scores, i, best) ==
    IF i > Len(scores) THEN best
    ELSE python_max_last(scores, i + 1, IF scores[i] >= scores[best] THEN i ELSE best)

\* max(category_scores, key=category_scores.get): Python's max keeps the first
\* key (in insertion order) whose value is the largest
RECURSIVE python_max(_, _, _)
python_max(scores, i, best) ==
    IF i > Len(scores) THEN best
    ELSE python_max(scores, i + 1, IF scores[i] > scores[best] THEN i ELSE best)

\* mutant: the first declared category is returned whatever the scores
identify_category_first(self, s) ==
    LET scores == category_scores(self, s)
    IN  IF Len(scores) > 0 THEN categories(self)[1].category ELSE OtherCategory

identify_category(self, s) ==
    LET scores == category_scores(self, s)
    IN  IF Len(scores) > 0                       \* `if category_scores:`
        THEN categories(self)[python_max(scores, 2, 1)].category
        ELSE OtherCategory

\* round(x, 2) of the double x = (min(1.0, len/100) + min(1.0, count/5)) / 2, in
\* hundredths.  x is a decimal tie exactly when len is odd; the double then
\* lies above or below the tie, and round() follows the double.  RoundsUp
\* lists the (len, count) pairs whose double rounds up.
RoundsUp ==
   {
     <<1,0>>, <<1,1>>, <<1,2>>, <<1,4>>, <<1,5>>, <<3,1>>, <<3,2>>, <<3,3>>, <<3,4>>, <<3,5>>,
     <<5,0>>, <<5,2>>, <<5,3>>, <<5,4>>, <<5,5>>, <<7,0>>, <<7,1>>, <<7,2>>, <<7,4>>, <<7,5>>,
     <<9,1>>, <<9,4>>, <<9,5>>, <<11,0>>, <<11,2>>, <<11,4>>, <<11,5>>, <<13,0>>, <<13,1>>,
     <<13,2>>, <<13,4>>, <<15,2>>, <<15,3>>, <<15,4>>, <<17,0>>, <<17,2>>, <<17,3>>, <<17,4>>,
     <<19,0>>, <<19,1>>, <<19,2>>, <<19,3>>, <<21,1>>, <<21,4>>, <<23,0>>, <<23,1>>, <<23,2>>,
     <<23,4>>, <<25,1>>, <<25,2>>, <<25,4>>, <<27,0>>, <<27,1>>, <<27,2>>, <<27,4>>, <<27,5>>,
     <<29,4>>, <<29,5>>, <<31,1>>, <<31,4>>, <<31,5>>, <<33,0>>, <<33,1>>, <<33,4>>, <<33,5>>,
     <<35,1>>, <<35,2>>, <<35,5>>, <<37,1>>, <<37,2>>, <<37,5>>, <<39,0>>, <<39,1>>, <<39,2>>,
     <<39,5>>, <<41,2>>, <<41,3>>, <<43,1>>, <<43,2>>, <<43,3>>, <<45,0>>, <<45,1>>, <<45,2>>,
     <<45,3>>, <<47,4>>, <<49,2>>, <<49,4>>, <<51,0>>, <<51,2>>, <<51,4>>, <<51,5>>, <<53,0>>,
     <<53,2>>, <<53,4>>, <<53,5>>, <<55,0>>, <<55,1>>, <<55,2>>, <<55,4>>, <<55,5>>, <<57,1>>,
     <<57,4>>, <<59,1>>, <<59,4>>, <<61,1>>, <<61,2>>, <<61,4>>, <<63,0>>, <<63,1>>, <<63,2>>,
     <<63,4>>, <<65,0>>, <<65,1>>, <<65,2>>, <<65,4>>, <<67,0>>, <<67,1>>, <<67,2>>, <<67,3>>,
     <<67,4>>, <<69,3>>, <<71,3>>, <<71,4>>, <<73,3>>, <<73,4>>, <<75,0>>, <<75,3>>, <<75,4>>,
     <<75,5>>, <<77,0>>, <<77,3>>, <<77,4>>, <<77,5>>, <<79,0>>, <<79,3>>, <<79,4>>, <<79,5>>,
     <<81,0>>, <<81,1>>, <<81,3>>, <<81,4>>, <<81,5>>, <<83,1>>, <<83,5>>, <<85,1>>, <<85,5>>,
     <<87,1>>, <<87,2>>, <<87,5>>, <<89,0>>, <<89,1>>, <<89,2>>, <<89,5>>, <<91,0>>, <<91,1>>,
     <<91,2>>, <<91,3>>, <<91,5>>, <<93,0>>, <<93,1>>, <<93,2>>, <<93,3>>, <<93,5>>, <<95,2>>,
     <<95,4>>, <<97,2>>, <<97,4>>, <<99,2>>, <<99,4>>
   }

\* mutant: keyword_factor is not capped at 1.0
confidence_from_uncapped(text_length, keyword_count) ==
    LET len   == Min(100, text_length)
        twice == len + 20 * keyword_count
    IN  (twice \div 2)
          + (IF twice % 2 = 1 /\ << len, Min(5, keyword_count) >> \in RoundsUp THEN 1 ELSE 0)

\* confidence, in hundredths (0.73 is 73), from text_length and keyword_count
confidence_from(text_length, keyword_count) ==
    LET len   == Min(100, text_length)            \* length_factor  = len / 100
        count == Min(5, keyword_count)            \* keyword_factor = count / 5
        twice == len + 20 * count                 \* 200 * confidence
    IN  (twice \div 2)
          + (IF twice % 2 = 1 /\ << len, count >> \in RoundsUp THEN 1 ELSE 0)

\* confidence from the text length and the match counts m
confidence_of(length, m) == confidence_from(length, total_matches(m))

calculate_confidence(self, s) == confidence_of(Len(s), pattern_matches(self, s))

\* RiskScore.  _calculate_content_risk and _calculate_confidence run the same
\* findall calls on the same text; the counts are taken once here.
analyze_text(self, s) ==
    LET m       == pattern_matches(self, s)
        content == content_risk_of(self, m)
        legal   == calculate_legal_risk(self, s)
        brand   == calculate_brand_risk(self, s)
        social  == calculate_social_risk(self, s)
    IN  [ overall_score |-> calculate_overall_score(content, legal, brand, social),
          content_risk  |-> content,
          legal_risk    |-> legal,
          brand_risk    |-> brand,
          social_risk   |-> social,
          category      |-> identify_category(self, s),
          confidence    |-> confidence_of(Len(s), m) ]

\* the advisories of get_recommendations, by the rule that issues them:
\*   "legal_review"    法的リスクが高いため、法務部門との相談を推奨
\*   "pr_strategy"     ブランドイメージへの影響が大きいため、広報戦略の見直しが必要
\*   "sns_monitoring"  社会的影響が予想されるため、SNS監視体制の強化を推奨
\*   "content_review"  コンテンツの全面的な見直しが必要
\*   "low_confidence"  分析の信頼度が低いため、より詳細な分析を推奨
\* mutant: the legal rule fires for any legal keyword
get_recommendations_any_legal(score) ==
    (IF score.legal_risk > 0 THEN << "legal_review" >> ELSE << >>)
    \o (IF score.brand_risk >= 60 THEN << "pr_strategy" >> ELSE << >>)
    \o (IF score.social_risk >= 60 THEN << "sns_monitoring" >> ELSE << >>)
    \o (IF score.content_risk >= 80 THEN << "content_review" >> ELSE << >>)
    \o (IF score.confidence < 50 THEN << "low_confidence" >> ELSE << >>)

\* mutant: the rules are an if/elif chain, the first that applies wins
get_recommendations_first_only(score) ==
    IF score.legal_risk >= 60 THEN << "legal_review" >>
    ELSE IF score.brand_risk >= 60 THEN << "pr_strategy" >>
    ELSE IF score.social_risk >= 60 THEN << "sns_monitoring" >>
    ELSE IF score.content_risk >= 80 THEN << "content_review" >>
    ELSE IF score.confidence < 50 THEN << "low_confidence" >>
    ELSE << >>

\* get_recommendations: every rule that applies appends its advisory, in this order
get_recommendations(score) ==
    (IF score.legal_risk >= 60 THEN << "legal_review" >> ELSE << >>)
    \o (IF score.brand_risk >= 60 THEN << "pr_strategy" >> ELSE << >>)
    \o (IF score.social_risk >= 60 THEN << "sns_monitoring" >> ELSE << >>)
    \o (IF score.content_risk >= 80 THEN << "content_review" >> ELSE << >>)
    \o (IF score.confidence < 50 THEN << "low_confidence" >> ELSE << >>)

(***************************************************************************)
(* Inputs.  Texts are built from a vocabulary of catalog terms, of terms   *)
(* that overlap one another ('男' + '性' = '男性'), of a term that is in a *)
(* keyword table but in no pattern ('卑劣') and of a character no table    *)
(* knows on its own ('性'); two longer texts are taken as they stand.      *)
(***************************************************************************)
OTOKO   == << 30007 >>           \* '男'   extreme tier, 差別禁止法, 差別的表現
SEI     == << 24615 >>           \* '性'   in no table; '男性' and '性別' are
KUNI    == << 22269 >>           \* '国'   medium tier, 社会問題, 社会問題への偏見
KOROSU  == << 27578, 12377 >>    \* '殺す' extreme tier, 脅迫罪, 企業イメージ, 炎上拡散, 極めて危険な表現
ROUJIN  == << 32769, 20154 >>    \* '老人' extreme tier, 差別禁止法, 差別的表現 and 人権侵害
KUSO    == << 12463, 12477 >>    \* 'クソ' high tier, 企業イメージ, 不適切な表現
SAIKOU  == << 26368, 39640 >>    \* '最高' low tier
HIRETSU == << 21329, 21155 >>    \* '卑劣' 名誉毀損 and 誹謗中傷, in no pattern
CO2LOW  == << 99, 111, 50 >>     \* 'co2'  matches the pattern CO2 case-insensitively, is not the keyword 'CO2'

Vocabulary == { OTOKO, SEI, KUNI, KOROSU, ROUJIN, KUSO, SAIKOU, HIRETSU, CO2LOW }

\* the sample text of advanced_scoring.py:
\* '弊社の新商品は本当にクソみたいな仕上がりでした。でもお客様には最高の商品としてお届けします！'
SampleText ==
  << 24330, 31038, 12398, 26032, 21830, 21697, 12399, 26412, 24403, 12395, 12463, 12477, 12415,
     12383, 12356, 12394, 20181, 19978, 12364, 12426, 12391, 12375, 12383, 12290, 12391, 12418,
     12362, 23458, 27096, 12395, 12399, 26368, 39640, 12398, 21830, 21697, 12392, 12375, 12390,
     12362, 23626, 12369, 12375, 12414, 12377, 65281 >>

\* a text dense in trigger keywords, whose raw factor sums pass 100:
\* '殺害殺す死ね暴力差別偏見老人高齢者障害者外国人女性男性最悪ひどい税金政治残業給料クソダメ嘘デマ問題誹謗中傷攻撃政府国社会やばい'
DenseText ==
  << 27578, 23475, 27578, 12377, 27515, 12397, 26292, 21147, 24046, 21029, 20559, 35211, 32769,
     20154, 39640, 40802, 32773, 38556, 23475, 32773, 22806, 22269, 20154, 22899, 24615, 30007,
     24615, 26368, 24746, 12402, 12393, 12356, 31246, 37329, 25919, 27835, 27531, 26989, 32102,
     26009, 12463, 12477, 12480, 12513, 22040, 12487, 12510, 21839, 38988, 35513, 35607, 20013,
     20663, 25915, 25731, 25919, 24220, 22269, 31038, 20250, 12420, 12400, 12356 >>

ScenarioTexts == { SampleText, DenseText }

\* the texts of the calls made between two calls on the text under analysis
OtherTexts == { KOROSU, SAIKOU }

\* every concatenation of vocabulary words of at most n characters
RECURSIVE TextsUpTo(_)
TextsUpTo(n) ==
    { << >> } \cup
    UNION { { t \o w : t \in TextsUpTo(n - Len(w)) } : w \in { v \in Vocabulary : Len(v) <= n } }

Inputs == TextsUpTo(MaxTextLen) \cup ScenarioTexts

(***************************************************************************)
(* State machine of the scoring engine: one instance, a text, and the      *)
(* calls a request handler makes on the instance.                          *)
(***************************************************************************)
NoScore ==
    [ overall_score |-> -1, content_risk |-> -1, legal_risk |-> -1, brand_risk |-> -1,
      social_risk |-> -1, category |-> << >>, confidence |-> -1 ]
NoRecommendations == << "none" >>
NoText == << -1 >>
NoResponse ==
    [ request |-> "none", status |-> 0, error |-> FALSE, risk_score |-> NoScore,
      related_cases |-> << >>, recommendations |-> NoRecommendations ]

\* the engine before its first call
NoCalls ==
    /\ risk_score = NoScore
    /\ first_score = NoScore
    /\ recommendations = NoRecommendations
    /\ aux_text = NoText
    /\ aux_score = NoScore
    /\ recalled = FALSE

NoArgs == << >>
\* _load_feedback_data without a feedback file: the empty store
EmptyLearningData ==
    [ feedback_count |-> 0, accuracy_history |-> << >>, user_corrections |-> << >>,
      pattern_weights |-> << >> ]
NoResult == -1

\* no service around the engine
NoService ==
    /\ entry = "none"
    /\ db_status = "ok"
    /\ enjo_cases = {}
    /\ response = NoResponse
    /\ invoked = {}

\* no concurrent handlers, no method called on its own
NoOthers ==
    /\ calls = << >>
    /\ op_args = NoArgs
    /\ op_result = NoResult
    /\ learning_data = EmptyLearningData

\* the engine on its own: an instance of either class and a text, no service around it
Init ==
    /\ scoring_system \in { MainScoringSystem, AdvScoringSystem }
    /\ text \in Inputs
    /\ NoCalls
    /\ NoService
    /\ NoOthers

\* mutant: every call forgets the first remaining legal factor
analyze_text_self_learns(self, s) ==
    [ self EXCEPT !.legal_risk_factors = IF @ = << >> THEN @ ELSE Tail(@) ]

\* what a call of analyze_text leaves on self: the method assigns no attribute
analyze_text_self(self, s) == self

\* scoring_system.analyze_text(text)
AnalyzeText ==
    /\ risk_score' = analyze_text(scoring_system, text)
    /\ scoring_system' = analyze_text_self(scoring_system, text)
    /\ first_score' = IF first_score = NoScore THEN risk_score' ELSE first_score
    /\ recalled' = (recalled \/ (first_score # NoScore /\ aux_text # NoText))
    /\ UNCHANGED << text, recommendations, aux_text, aux_score >>
    /\ UNCHANGED service_vars
    /\ UNCHANGED other_vars

\* scoring_system.analyze_text(t) for another text t
AnalyzeOther(t) ==
    /\ t # text
    /\ aux_text' = t
    /\ aux_score' = analyze_text(scoring_system, t)
    /\ scoring_system' = analyze_text_self(scoring_system, t)
    /\ UNCHANGED << text, risk_score, first_score, recommendations, recalled >>
    /\ UNCHANGED service_vars
    /\ UNCHANGED other_vars

\* the trigger keywords of a factor table that the text contains
contained_keywords(table, s) ==
    UNION { { table[f][k] : k \in { j \in DOMAIN table[f] : str_contains(table[f][j], s) } } :
            f \in DOMAIN table }

trigger_keywords(self, s) ==
    contained_keywords(self.legal_risk_factors, s)
      \cup contained_keywords(self.brand_risk_factors, s)
      \cup contained_keywords(self.social_risk_factors, s)

\* scoring_system.analyze_text on the text extended by one more occurrence of
\* a trigger keyword k that it contains
AnalyzeExtended(k) ==
    /\ risk_score # NoScore
    /\ k \in trigger_keywords(scoring_system, text)
    /\ AnalyzeOther(text \o k)

\* scoring_system.get_recommendations(risk_score)
GetRecommendations ==
    /\ risk_score # NoScore
    /\ recommendations' = get_recommendations(risk_score)
    /\ UNCHANGED << scoring_system, text, risk_score, first_score, aux_text, aux_score, recalled >>
    /\ UNCHANGED service_vars
    /\ UNCHANGED other_vars

Next ==
    \/ AnalyzeText
    \/ /\ Len(text) <= MaxTextLen
       /\ \E k \in trigger_keywords(scoring_system, text) : AnalyzeExtended(k)
    \/ GetRecommendations

Spec == Init /\ [][Next]_vars

\* the calls of any number of requests on the one instance, in any order
NextCalls ==
    \/ AnalyzeText
    \/ \E t \in OtherTexts : AnalyzeOther(t)

SpecCalls == Init /\ [][NextCalls]_vars

(***************************************************************************)
(* The incident store and the three services in front of it:               *)
(* src/main.py (FastAPI, multi-factor scoring, Gemini), src/main_simple.py *)
(* (FastAPI, simple scoring) and src/api/main.py (BaseHTTPRequestHandler). *)
(***************************************************************************)
\* SQL NULL in a nullable column
NULL == << -1 >>

\* rows of enjo_cases (src/setup_database_v2.py): the six NOT NULL columns
\* and company_info, one of the four nullable ones
IncidentPool ==
  {
    \* (1, '男', '殺す', '2024-01-15', '差別的表現', '差別', 'A社')
    [ incident_id |-> 1, title |-> <<30007>>, incident_text |-> <<27578,12377>>,
      incident_date |-> <<50,48,50,52,45,48,49,45,49,53>>,
      cause_category |-> <<24046,21029,30340,34920,29694>>,
      reasoning_text |-> <<24046,21029>>, company_info |-> <<65,31038>> ],
    \* (2, '趣味', '殺す', '2024-06-08', '趣味嗜好への差別', '最高', NULL)
    [ incident_id |-> 2, title |-> <<36259,21619>>, incident_text |-> <<27578,12377>>,
      incident_date |-> <<50,48,50,52,45,48,54,45,48,56>>,
      cause_category |-> <<36259,21619,21980,22909,12408,12398,24046,21029>>,
      reasoning_text |-> <<26368,39640>>, company_info |-> NULL ],
    \* (3, '炎上', 'クソ', '2024-03-10', '炎上', '殺す', 'B社')
    [ incident_id |-> 3, title |-> <<28814,19978>>, incident_text |-> <<12463,12477>>,
      incident_date |-> <<50,48,50,52,45,48,51,45,49,48>>,
      cause_category |-> <<28814,19978>>,
      reasoning_text |-> <<27578,12377>>, company_info |-> <<66,31038>> ],
    \* (4, 'クソ', '最高', '2024-03-10', '誹謗中傷', '誹謗', 'C社')
    [ incident_id |-> 4, title |-> <<12463,12477>>, incident_text |-> <<26368,39640>>,
      incident_date |-> <<50,48,50,52,45,48,51,45,49,48>>,
      cause_category |-> <<35513,35607,20013,20663>>,
      reasoning_text |-> <<35513,35607>>, company_info |-> <<67,31038>> ],
    \* (5, '漏洩', '老人', '2024-01-15', '個人情報漏洩', '殺す', 'D社')
    [ incident_id |-> 5, title |-> <<28431,27945>>, incident_text |-> <<32769,20154>>,
      incident_date |-> <<50,48,50,52,45,48,49,45,49,53>>,
      cause_category |-> <<20491,20154,24773,22577,28431,27945>>,
      reasoning_text |-> <<27578,12377>>, company_info |-> <<68,31038>> ]
  }

\* a < b in the order of ORDER BY on a TEXT column (BINARY collation):
\* character by character, a proper prefix first
RECURSIVE str_less(_, _)
str_less(a, b) ==
    IF b = << >> THEN FALSE
    ELSE IF a = << >> THEN TRUE
    ELSE IF Head(a) # Head(b) THEN Head(a) < Head(b)
    ELSE str_less(Tail(a), Tail(b))

\* SQLite `s LIKE p`: % is any run of characters, _ any one character,
\* ASCII letters compare without case
RECURSIVE sql_like(_, _)
sql_like(p, s) ==
    IF p = << >> THEN s = << >>
    ELSE IF Head(p) = 37 THEN sql_like(Tail(p), s) \/ (s # << >> /\ sql_like(p, Tail(s)))
    ELSE /\ s # << >>
         /\ (Head(p) = 95 \/ SameChar(Head(p), Head(s), TRUE))
         /\ sql_like(Tail(p), Tail(s))

\* column LIKE f"%{keyword}%"
like_contains(column, keyword) == sql_like(<< 37 >> \o keyword \o << 37 >>, column)


(***************************************************************************)
(* src/main.py: extract_keywords_advanced and search_related_cases         *)
(***************************************************************************)
\* src/main.py, extract_keywords_advanced: high_risk_patterns (pattern -> category label)
keyword_patterns ==
  <<
    \* r'クソ|くそ|最悪|ひどい|ダメ|だめ|やばい': '不適切な表現'
    [ label |-> <<19981,36969,20999,12394,34920,29694>>,
      pattern |-> << <<12463,12477>>, <<12367,12381>>, <<26368,24746>>, <<12402,12393,12356>>,
                     <<12480,12513>>, <<12384,12417>>, <<12420,12400,12356>> >> ],
    \* r'女性|男性|男|女|性別|結婚|妊娠': '差別的表現'
    [ label |-> <<24046,21029,30340,34920,29694>>,
      pattern |-> << <<22899,24615>>, <<30007,24615>>, <<30007>>, <<22899>>, <<24615,21029>>,
                     <<32080,23130>>, <<22922,23072>> >> ],
    \* r'パクリ|盗作|コピー|真似': '誹謗中傷'
    [ label |-> <<35513,35607,20013,20663>>,
      pattern |-> << <<12497,12463,12522>>, <<30423,20316>>, <<12467,12500,12540>>,
                     <<30495,20284>> >> ],
    \* r'住所|電話|個人情報|名前|メール': '個人情報漏洩'
    [ label |-> <<20491,20154,24773,22577,28431,27945>>,
      pattern |-> << <<20303,25152>>, <<38651,35441>>, <<20491,20154,24773,22577>>,
                     <<21517,21069>>, <<12513,12540,12523>> >> ],
    \* r'残業|給料|労働|働く|従業員': '労働問題'
    [ label |-> <<21172,20685,21839,38988>>,
      pattern |-> << <<27531,26989>>, <<32102,26009>>, <<21172,20685>>, <<20685,12367>>,
                     <<24467,26989,21729>> >> ],
    \* r'環境|地球|温暖化|CO2|エコ': '社会的責任'
    [ label |-> <<31038,20250,30340,36012,20219>>,
      pattern |-> << <<29872,22659>>, <<22320,29699>>, <<28201,26262,21270>>, <<67,79,50>>,
                     <<12456,12467>> >> ],
    \* r'税金|政治|政府|国|社会': '社会問題'
    [ label |-> <<31038,20250,21839,38988>>,
      pattern |-> << <<31246,37329>>, <<25919,27835>>, <<25919,24220>>, <<22269>>,
                     <<31038,20250>> >> ],
    \* r'アニメ|ゲーム|趣味|文化|遅れ': '趣味嗜好'
    [ label |-> <<36259,21619,21980,22909>>,
      pattern |-> << <<12450,12491,12513>>, <<12466,12540,12512>>, <<36259,21619>>,
                     <<25991,21270>>, <<36933,12428>> >> ],
    \* r'競合|他社|ライバル|対抗': '競合関係'
    [ label |-> <<31478,21512,38306,20418>>,
      pattern |-> << <<31478,21512>>, <<20182,31038>>, <<12521,12452,12496,12523>>,
                     <<23550,25239>> >> ],
    \* r'完璧|問題ない|デマ|嘘|隠蔽': '情報隠蔽'
    [ label |-> <<24773,22577,38560,34109>>,
      pattern |-> << <<23436,29863>>, <<21839,38988,12394,12356>>, <<12487,12510>>, <<22040>>,
                     <<38560,34109>> >> ]
  >>

\* src/main.py, extract_keywords_advanced: emotion_patterns
emotion_patterns ==
  <<
    \* r'怒|悲|喜|驚|恐|嫌|愛|恨|妬|嫉'
    << <<24594>>, <<24754>>, <<21916>>, <<39514>>, <<24656>>, <<23244>>, <<24859>>, <<24680>>,
       <<22956>>, <<23241>> >>,
    \* r'すごい|やばい|ひどい|最悪|最高|素晴らしい'
    << <<12377,12372,12356>>, <<12420,12400,12356>>, <<12402,12393,12356>>, <<26368,24746>>,
       <<26368,39640>>, <<32032,26228,12425,12375,12356>> >>,
    \* r'絶対|絶対に|絶対だ|絶対です'
    << <<32118,23550>>, <<32118,23550,12395>>, <<32118,23550,12384>>,
       <<32118,23550,12391,12377>> >>,
    \* r'絶対に|絶対|絶対だ|絶対です'
    << <<32118,23550,12395>>, <<32118,23550>>, <<32118,23550,12384>>,
       <<32118,23550,12391,12377>> >>
  >>

\* src/main.py, extract_keywords_advanced: negation_patterns
negation_patterns ==
  <<
    \* r'ない|無い|だめ|ダメ|禁止|禁止する'
    << <<12394,12356>>, <<28961,12356>>, <<12384,12417>>, <<12480,12513>>, <<31105,27490>>,
       <<31105,27490,12377,12427>> >>,
    \* r'やめて|やめろ|やめるな'
    << <<12420,12417,12390>>, <<12420,12417,12429>>, <<12420,12417,12427,12394>> >>,
    \* r'買うな|買わない|買わないで'
    << <<36023,12358,12394>>, <<36023,12431,12394,12356>>, <<36023,12431,12394,12356,12391>> >>
  >>

\* src/main.py, extract_keywords_advanced: ['不適切', '差別', '誹謗', '個人情報', '労働', '社会', '隠蔽']
priority_markers ==
  { <<19981,36969,20999>>, <<24046,21029>>, <<35513,35607>>, <<20491,20154,24773,22577>>,
    <<21172,20685>>, <<31038,20250>>, <<38560,34109>> }

\* src/main.py, search_related_cases: CASE cause_category WHEN ... THEN n
category_priority_table ==
  <<
    [ cause_category |-> <<24046,21029,30340,34920,29694>>, priority |-> 5 ],   \* '差別的表現'
    [ cause_category |-> <<35513,35607,20013,20663>>, priority |-> 5 ],   \* '誹謗中傷'
    [ cause_category |-> <<20491,20154,24773,22577,28431,27945>>, priority |-> 5 ],   \* '個人情報漏洩'
    [ cause_category |-> <<21172,20685,21839,38988>>, priority |-> 4 ],   \* '労働問題'
    [ cause_category |-> <<31038,20250,30340,36012,20219,12398,27424,22914>>, priority |-> 4 ],   \* '社会的責任の欠如'
    [ cause_category |-> <<24773,22577,38560,34109>>, priority |-> 4 ],   \* '情報隠蔽'
    [ cause_category |-> <<19981,36969,20999,12394,34920,29694>>, priority |-> 3 ],   \* '不適切な表現'
    [ cause_category |-> <<19981,35641,24910,12394,34920,29694>>, priority |-> 3 ],   \* '不謹慎な表現'
    [ cause_category |-> <<31038,20250,21839,38988,12408,12398,20559,35211>>, priority |-> 3 ],   \* '社会問題への偏見'
    [ cause_category |-> <<36259,21619,21980,22909,12408,12398,24046,21029>>, priority |-> 2 ]   \* '趣味嗜好への差別'
  >>

\* the character class [ぁ-んァ-ヶ一-龯]
IsWordChar(c) == c \in 12353..12435 \/ c \in 12449..12534 \/ c \in 19968..40879

\* re.findall(r'[ぁ-んァ-ヶ一-龯]{2,}', text): the maximal runs of two or more
\* characters of the class
word_runs(s) ==
    { SubSeq(s, i, j) : << i, j >> \in
        { ij \in (1..Len(s)) \X (1..Len(s)) :
            /\ ij[1] < ij[2]
            /\ \A k \in ij[1]..ij[2] : IsWordChar(s[k])
            /\ (ij[1] = 1 \/ ~IsWordChar(s[ij[1] - 1]))
            /\ (ij[2] = Len(s) \/ ~IsWordChar(s[ij[2] + 1])) } }

\* mutant: a label is collected only when its pattern matched
unique_keywords_matched_labels(s) ==
    UNION { Range(re_findall(keyword_patterns[p].pattern, s, TRUE)) : p \in DOMAIN keyword_patterns }
      \cup { keyword_patterns[p].label :
                p \in { r \in DOMAIN keyword_patterns :
                           re_findall(keyword_patterns[r].pattern, s, TRUE) # << >> } }
      \cup UNION { Range(re_findall(emotion_patterns[p], s, FALSE)) : p \in DOMAIN emotion_patterns }
      \cup UNION { Range(re_findall(negation_patterns[p], s, FALSE)) : p \in DOMAIN negation_patterns }
      \cup word_runs(s)

\* set(keywords): the matches of the ten patterns and their ten labels, the
\* matches of the emotion and negation patterns, and the word runs
unique_keywords(s) ==
    UNION { Range(re_findall(keyword_patterns[p].pattern, s, TRUE)) : p \in DOMAIN keyword_patterns }
      \cup { keyword_patterns[p].label : p \in DOMAIN keyword_patterns }
      \cup UNION { Range(re_findall(emotion_patterns[p], s, FALSE)) : p \in DOMAIN emotion_patterns }
      \cup UNION { Range(re_findall(negation_patterns[p], s, FALSE)) : p \in DOMAIN negation_patterns }
      \cup word_runs(s)

\* any(risk in keyword for risk in [...])
is_priority_keyword(keyword) == \E risk \in priority_markers : str_contains(risk, keyword)

\* mutant: the slice keeps the whole list
SliceOf_whole(S, n) == { S }

\* the subsets of S that a slice [:n] of a list of S in arbitrary order can keep
SliceOf(S, n) == { T \in SUBSET S : Cardinality(T) = Min(n, Cardinality(S)) }

\* extract_keywords_advanced(text): priority_keywords[:10] + normal_keywords[:5].
\* list(set(keywords)) has no defined order, so which keywords survive a slice
\* is open; a result is the kept priority keywords followed by the kept normal
\* ones, given here as the two sets.
extract_keywords_advanced(s) ==
    LET unique == unique_keywords(s)
        priority_keywords == { k \in unique : is_priority_keyword(k) }
        normal_keywords == unique \ priority_keywords
    IN  { [ priority |-> P, normal |-> N ] :
            P \in SliceOf(priority_keywords, 10), N \in SliceOf(normal_keywords, 5) }

\* CASE cause_category WHEN ... THEN n ... ELSE 1 END
category_priority(cause_category) ==
    LET hit == { i \in DOMAIN category_priority_table :
                   category_priority_table[i].cause_category = cause_category }
    IN  IF hit = {} THEN 1 ELSE category_priority_table[CHOOSE i \in hit : TRUE].priority

\* ORDER BY CASE ... END DESC, incident_date DESC
by_priority_then_date(a, b) ==
    \/ category_priority(a.cause_category) > category_priority(b.cause_category)
    \/ /\ category_priority(a.cause_category) = category_priority(b.cause_category)
       /\ ~str_less(a.incident_date, b.incident_date)

\* mutant: ORDER BY incident_date ASC
by_date_ascending(a, b) == ~str_less(b.incident_date, a.incident_date)

\* ORDER BY incident_date DESC
by_date(a, b) == ~str_less(a.incident_date, b.incident_date)

\* row a may stand before row b under the ORDER BY clause order_by
precedes(order_by, a, b) ==
    IF order_by = "priority, incident_date" THEN by_priority_then_date(a, b) ELSE by_date(a, b)

\* ORDER BY order_by LIMIT limit: the first min(limit, |rows|) rows of `rows`
\* in an order that respects the clause; rows it does not separate come in
\* any order
sql_order_limit(rows, order_by, limit) ==
    LET n == Min(limit, Cardinality(rows))
    IN  { q \in [1..n -> rows] :
            /\ \A i, j \in 1..n : i < j => (q[i] # q[j] /\ precedes(order_by, q[i], q[j]))
            /\ \A r \in rows \ { q[i] : i \in 1..n } : \A i \in 1..n : precedes(order_by, q[i], r) }

\* WHERE (title LIKE ? OR incident_text LIKE ? OR cause_category LIKE ? OR
\* reasoning_text LIKE ?) OR ... over the keywords
main_where(row, keywords) ==
    \E k \in keywords :
        \/ like_contains(row.title, k)
        \/ like_contains(row.incident_text, k)
        \/ like_contains(row.cause_category, k)
        \/ like_contains(row.reasoning_text, k)

\* the query search_related_cases of src/main.py runs for the keywords:
\* `if search_conditions:` the filtered one, else the unfiltered one
main_query(rows, keywords, limit) ==
    IF keywords # {}
    THEN sql_order_limit({ r \in rows : main_where(r, keywords) },
                         "priority, incident_date", limit)
    ELSE sql_order_limit(rows, "incident_date", limit)

\* search_related_cases(text, limit) of src/main.py on a readable store: the
\* possible result lists.  Without a keyword the query is the unfiltered one.
main_search_related_cases(rows, s, limit) ==
    UNION { main_query(rows, kw.priority \cup kw.normal, limit)
          : kw \in extract_keywords_advanced(s) }

(***************************************************************************)
(* src/main_simple.py and src/api/main.py: simple scoring and search       *)
(***************************************************************************)
\* src/main_simple.py, calculate_risk_score: high_risk_patterns
simple_high_risk_patterns ==
  <<
    \* r'殺害|殺す|死ね|死ぬ|殺人'
    << <<27578,23475>>, <<27578,12377>>, <<27515,12397>>, <<27515,12396>>, <<27578,20154>> >>,
    \* r'女性|男性|男|女|性別'
    << <<22899,24615>>, <<30007,24615>>, <<30007>>, <<22899>>, <<24615,21029>> >>,
    \* r'差別|偏見|見下す'
    << <<24046,21029>>, <<20559,35211>>, <<35211,19979,12377>> >>,
    \* r'暴力|暴行|殴る|蹴る'
    << <<26292,21147>>, <<26292,34892>>, <<27572,12427>>, <<36468,12427>> >>,
    \* r'クソ|くそ|最悪|ひどい'
    << <<12463,12477>>, <<12367,12381>>, <<26368,24746>>, <<12402,12393,12356>> >>
  >>

\* src/main_simple.py, calculate_risk_score: medium_risk_patterns
simple_medium_risk_patterns ==
  <<
    \* r'残業|給料|労働'
    << <<27531,26989>>, <<32102,26009>>, <<21172,20685>> >>,
    \* r'環境|地球|温暖化'
    << <<29872,22659>>, <<22320,29699>>, <<28201,26262,21270>> >>,
    \* r'税金|政治|政府'
    << <<31246,37329>>, <<25919,27835>>, <<25919,24220>> >>
  >>

\* src/api/main.py, handler.calculate_risk_score: the if/elif chain
api_risk_chain ==
  <<
    \* r'殺害|殺す|死ね|死ぬ|殺人': score += 40, category = '極めて危険な表現'
    [ increment |-> 40, category |-> <<26997,12417,12390,21361,38522,12394,34920,29694>>,
      pattern |-> << <<27578,23475>>, <<27578,12377>>, <<27515,12397>>, <<27515,12396>>,
                     <<27578,20154>> >> ],
    \* r'女性|男性|男|女|性別': score += 30, category = '差別的表現'
    [ increment |-> 30, category |-> <<24046,21029,30340,34920,29694>>,
      pattern |-> << <<22899,24615>>, <<30007,24615>>, <<30007>>, <<22899>>, <<24615,21029>> >> ],
    \* r'差別|偏見|見下す': score += 30, category = '差別的表現'
    [ increment |-> 30, category |-> <<24046,21029,30340,34920,29694>>,
      pattern |-> << <<24046,21029>>, <<20559,35211>>, <<35211,19979,12377>> >> ],
    \* r'暴力|暴行|殴る|蹴る': score += 35, category = '暴力的表現'
    [ increment |-> 35, category |-> <<26292,21147,30340,34920,29694>>,
      pattern |-> << <<26292,21147>>, <<26292,34892>>, <<27572,12427>>, <<36468,12427>> >> ],
    \* r'クソ|くそ|最悪|ひどい': score += 25, category = '不適切な表現'
    [ increment |-> 25, category |-> <<19981,36969,20999,12394,34920,29694>>,
      pattern |-> << <<12463,12477>>, <<12367,12381>>, <<26368,24746>>, <<12402,12393,12356>> >> ],
    \* r'残業|給料|労働': score += 20, category = '労働問題'
    [ increment |-> 20, category |-> <<21172,20685,21839,38988>>,
      pattern |-> << <<27531,26989>>, <<32102,26009>>, <<21172,20685>> >> ],
    \* r'環境|地球|温暖化': score += 15, category = '社会的責任'
    [ increment |-> 15, category |-> <<31038,20250,30340,36012,20219>>,
      pattern |-> << <<29872,22659>>, <<22320,29699>>, <<28201,26262,21270>> >> ],
    \* r'税金|政治|政府': score += 15, category = '社会問題'
    [ increment |-> 15, category |-> <<31038,20250,21839,38988>>,
      pattern |-> << <<31246,37329>>, <<25919,27835>>, <<25919,24220>> >> ]
  >>

\* str.isspace of a character
IsSpace(c) ==
    c \in { 9, 10, 11, 12, 13, 28, 29, 30, 31, 32, 133, 160, 5760, 8232, 8233, 8239, 8287, 12288 }
      \/ c \in 8192..8202

\* text.split(): the maximal runs of non-space characters, in order
RECURSIVE str_split_from(_, _, _)
str_split_from(s, i, word) ==
    IF i > Len(s) THEN (IF word = << >> THEN << >> ELSE << word >>)
    ELSE IF IsSpace(s[i])
         THEN (IF word = << >> THEN << >> ELSE << word >>) \o str_split_from(s, i + 1, << >>)
         ELSE str_split_from(s, i + 1, Append(word, s[i]))

str_split(s) == str_split_from(s, 1, << >>)

\* [word for word in text.split() if len(word) >= 2][:5]
simple_keywords(s) ==
    LET long == SelectSeq(str_split(s), LAMBDA word : Len(word) >= 2)
    IN  SubSeq(long, 1, Min(5, Len(long)))

\* re.search(pattern, text, re.IGNORECASE)
re_search(pattern, s) == re_findall(pattern, s, TRUE) # << >>

\* "殺害" in pattern, for a literal without '|'
pattern_has(pattern, literal) == \E a \in DOMAIN pattern : str_contains(literal, pattern[a])

first_hit(patterns, s) ==
    LET hit == { p \in DOMAIN patterns : re_search(patterns[p], s) }
    IN  IF hit = {} THEN 0 ELSE CHOOSE p \in hit : \A r \in hit : p <= r

\* the category the first matching high risk pattern sets, by the literals
\* the if/elif chain looks for in the pattern
simple_high_category(pattern, category) ==
    IF pattern_has(pattern, << 27578, 23475 >>) \/ pattern_has(pattern, << 27578, 12377 >>)
    THEN << 26997, 12417, 12390, 21361, 38522, 12394, 34920, 29694 >>      \* '極めて危険な表現'
    ELSE IF pattern_has(pattern, << 22899, 24615 >>) \/ pattern_has(pattern, << 30007, 24615 >>)
    THEN << 24046, 21029, 30340, 34920, 29694 >>                           \* '差別的表現'
    ELSE IF pattern_has(pattern, << 24046, 21029 >>)
    THEN << 24046, 21029, 30340, 34920, 29694 >>                           \* '差別的表現'
    ELSE IF pattern_has(pattern, << 26292, 21147 >>)
    THEN << 26292, 21147, 30340, 34920, 29694 >>                           \* '暴力的表現'
    ELSE IF pattern_has(pattern, << 12463, 12477 >>)
    THEN << 19981, 36969, 20999, 12394, 34920, 29694 >>                    \* '不適切な表現'
    ELSE category

simple_medium_category(pattern, category) ==
    IF pattern_has(pattern, << 27531, 26989 >>)
    THEN << 21172, 20685, 21839, 38988 >>                                  \* '労働問題'
    ELSE IF pattern_has(pattern, << 29872, 22659 >>)
    THEN << 31038, 20250, 30340, 36012, 20219 >>                           \* '社会的責任'
    ELSE IF pattern_has(pattern, << 31246, 37329 >>)
    THEN << 31038, 20250, 21839, 38988 >>                                  \* '社会問題'
    ELSE category

\* min(1.0, len(text) / 100), in hundredths
simple_confidence(s) == Min(100, Len(s))

\* mutant: the loops have no `break`, every matching pattern adds its increment
simple_calculate_risk_score_no_break(s) ==
    LET h == first_hit(simple_high_risk_patterns, s)
        m == first_hit(simple_medium_risk_patterns, s)
        score == 10 + 30 * Cardinality({ p \in DOMAIN simple_high_risk_patterns :
                                           re_search(simple_high_risk_patterns[p], s) })
                    + 15 * Cardinality({ p \in DOMAIN simple_medium_risk_patterns :
                                           re_search(simple_medium_risk_patterns[p], s) })
        category1 == IF h # 0 THEN simple_high_category(simple_high_risk_patterns[h], OtherCategory)
                     ELSE OtherCategory
        category2 == IF m # 0 THEN simple_medium_category(simple_medium_risk_patterns[m], category1)
                     ELSE category1
    IN  [ overall_score |-> Min(100, IF score < 0 THEN 0 ELSE score),
          category |-> category2,
          confidence |-> simple_confidence(s) ]

\* calculate_risk_score(text) of src/main_simple.py
simple_calculate_risk_score(s) ==
    LET h == first_hit(simple_high_risk_patterns, s)
        m == first_hit(simple_medium_risk_patterns, s)
        score == 10 + (IF h # 0 THEN 30 ELSE 0) + (IF m # 0 THEN 15 ELSE 0)
        category1 == IF h # 0 THEN simple_high_category(simple_high_risk_patterns[h], OtherCategory)
                     ELSE OtherCategory
        category2 == IF m # 0 THEN simple_medium_category(simple_medium_risk_patterns[m], category1)
                     ELSE category1
    IN  [ overall_score |-> Min(100, IF score < 0 THEN 0 ELSE score),
          category |-> category2,
          confidence |-> simple_confidence(s) ]

\* handler.calculate_risk_score(text) of src/api/main.py
api_calculate_risk_score(s) ==
    LET c == first_hit([ i \in DOMAIN api_risk_chain |-> api_risk_chain[i].pattern ], s)
        score == 10 + (IF c # 0 THEN api_risk_chain[c].increment ELSE 0)
    IN  [ overall_score |-> Min(100, IF score < 0 THEN 0 ELSE score),
          category |-> IF c # 0 THEN api_risk_chain[c].category ELSE OtherCategory,
          confidence |-> simple_confidence(s) ]

\* the risk level written into analysis_text: "high" is 高リスク (from 70),
\* "medium" is 中リスク (from 40), "low" is 低リスク
risk_level(overall_score) ==
    IF overall_score >= 70 THEN "high" ELSE IF overall_score >= 40 THEN "medium" ELSE "low"

\* the six columns the simple queries select
six_columns(row) ==
    [ incident_id |-> row.incident_id, title |-> row.title, incident_text |-> row.incident_text,
      incident_date |-> row.incident_date, cause_category |-> row.cause_category,
      reasoning_text |-> row.reasoning_text ]

\* WHERE (title LIKE ? OR incident_text LIKE ? OR cause_category LIKE ?) OR ...
simple_where(row, keywords) ==
    \E k \in DOMAIN keywords :
        \/ like_contains(row.title, keywords[k])
        \/ like_contains(row.incident_text, keywords[k])
        \/ like_contains(row.cause_category, keywords[k])

\* search_related_cases(text, limit) of src/main_simple.py and of
\* src/api/main.py: the possible result lists; [] when the store cannot be
\* opened or the query fails
simple_search_related_cases(status, rows, s, limit) ==
    IF status # "ok" THEN { << >> }
    ELSE LET keywords == simple_keywords(s)
             selected == { six_columns(r) : r \in rows }
         IN  IF keywords # << >>
             THEN sql_order_limit({ r \in selected : simple_where(r, keywords) },
                                  "incident_date", limit)
             ELSE sql_order_limit(selected, "incident_date", limit)

(***************************************************************************)
(* POST /analyze of the three services                                     *)
(***************************************************************************)
\* 'クソ 最高'
KUSO_SAIKOU == << 12463, 12477, 32, 26368, 39640 >>
\* '労働社会隠蔽'
ROUDOU_SHAKAI_INPEI == << 21172, 20685, 31038, 20250, 38560, 34109 >>

\* '殺す男労働': two high-risk patterns and a medium-risk pattern of main_simple.py
KOROSU_OTOKO_ROUDOU == << 27578, 12377, 30007, 21172, 20685 >>

\* request bodies: the empty text, a word of one character, one word, two
\* words, a text whose keywords overflow the priority slice, and a text that
\* matches several patterns of the simple scorers
RequestTexts ==
    { << >>, OTOKO, KOROSU, KUSO_SAIKOU, ROUDOU_SHAKAI_INPEI, KOROSU_OTOKO_ROUDOU }

Services == { "main", "main_simple", "api" }

\* a deployed service, its store and one request
InitService ==
    /\ scoring_system = MainScoringSystem
    /\ text \in RequestTexts
    /\ NoCalls
    /\ entry \in Services
    /\ db_status \in { "ok", "missing", "unreadable" }
    /\ enjo_cases \in SUBSET IncidentPool
    /\ db_status = "missing" => enjo_cases = {}
    /\ response = NoResponse
    /\ invoked = {}
    /\ NoOthers

ErrorResponse(status) ==
    [ request |-> "analyze", status |-> status, error |-> TRUE, risk_score |-> NoScore,
      related_cases |-> << >>, recommendations |-> NoRecommendations ]

\* AnalyzeResponse(input_text, risk_score, analysis_text, related_cases, recommendations)
AnalyzeResponse(score, related, advisories) ==
    [ request |-> "analyze", status |-> 200, error |-> FALSE, risk_score |-> score,
      related_cases |-> related, recommendations |-> advisories ]

\* the body of GET /health: "healthy" with the record count, else "unhealthy"
HealthResponse(healthy, count) ==
    [ request |-> "health", status |-> 200, error |-> ~healthy, database_records |-> count ]

\* mutant: the request model has no min_length
valid_request_no_min(s) == Len(s) \in 0..1000

\* AnalyzeRequest: text is required and has min_length=1, max_length=1000
valid_request(s) == Len(s) \in 1..1000

\* mutant: the query leaves only its newest row in the table
store_after_select_trims(rows) ==
    { r \in rows : \A o \in rows : ~str_less(r.incident_date, o.incident_date) }

\* the table after cursor.execute of a SELECT statement; no handler executes
\* another statement or commits
store_after_select(rows) == rows

\* the table after a handler that reached for the store
store_after_handler(status, rows) == IF status = "ok" THEN store_after_select(rows) ELSE rows

\* src/main.py, POST /analyze.  The request model rejects the text with 422
\* before the handler runs.  In the handler every exception becomes a 500:
\* get_database_connection raises without the store file, the query raises on
\* a store that cannot be read, the Gemini call may fail, and
\* RelatedCase(**case) rejects a NULL nullable column when the installed
\* pydantic does not take `str = None` as optional.
PostAnalyzeMain ==
    /\ entry = "main"
    /\ response = NoResponse
    /\ IF ~valid_request(text)
       THEN /\ response' = ErrorResponse(422)
            /\ invoked' = {}
            /\ UNCHANGED << scoring_system, enjo_cases >>
       ELSE LET score == analyze_text(scoring_system, text)
            IN  /\ IF db_status # "ok" THEN response' = ErrorResponse(500)
                   ELSE \E q \in main_search_related_cases(enjo_cases, text, 3) :
                        \E gemini_ok \in BOOLEAN, none_is_optional \in BOOLEAN :
                           response' =
                               IF gemini_ok /\ (none_is_optional
                                                 \/ \A i \in DOMAIN q : q[i].company_info # NULL)
                               THEN AnalyzeResponse(score, q, get_recommendations(score))
                               ELSE ErrorResponse(500)
                /\ invoked' = { "scorer", "store" }
                /\ scoring_system' = analyze_text_self(scoring_system, text)
                /\ enjo_cases' = store_after_handler(db_status, enjo_cases)
    /\ UNCHANGED << text, risk_score, first_score, recommendations, aux_text, aux_score, recalled,
                    entry, db_status >>
    /\ UNCHANGED other_vars

\* src/main_simple.py, POST /analyze
PostAnalyzeSimple ==
    /\ entry = "main_simple"
    /\ response = NoResponse
    /\ IF ~valid_request(text)
       THEN /\ response' = ErrorResponse(422)
            /\ invoked' = {}
            /\ UNCHANGED enjo_cases
       ELSE /\ \E q \in simple_search_related_cases(db_status, enjo_cases, text, 3) :
                   response' = AnalyzeResponse(simple_calculate_risk_score(text), q,
                                               NoRecommendations)
            /\ invoked' = { "scorer", "store" }
            /\ enjo_cases' = store_after_handler(db_status, enjo_cases)
    /\ UNCHANGED << scoring_system, text, risk_score, first_score, recommendations, aux_text,
                    aux_score, recalled, entry, db_status >>
    /\ UNCHANGED other_vars

\* src/api/main.py, do_POST on /analyze: the status line is 200 in every
\* case, a failure is an {"error": ...} body; a body without "text" is the
\* empty text
PostAnalyzeApi ==
    /\ entry = "api"
    /\ response = NoResponse
    /\ IF text = << >>
       THEN /\ response' = ErrorResponse(200)
            /\ invoked' = {}
            /\ UNCHANGED enjo_cases
       ELSE /\ \E q \in simple_search_related_cases(db_status, enjo_cases, text, 3) :
                   response' = AnalyzeResponse(api_calculate_risk_score(text), q,
                                               NoRecommendations)
            /\ invoked' = { "scorer", "store" }
            /\ enjo_cases' = store_after_handler(db_status, enjo_cases)
    /\ UNCHANGED << scoring_system, text, risk_score, first_score, recommendations, aux_text,
                    aux_score, recalled, entry, db_status >>
    /\ UNCHANGED other_vars

\* GET /health of the three services: SELECT COUNT(*) FROM enjo_cases.  A
\* store that is missing or cannot be read gives "unhealthy"; src/main.py
\* gets there through the exception of get_database_connection.
GetHealth ==
    /\ entry \in Services
    /\ response = NoResponse
    /\ response' = IF db_status = "ok" THEN HealthResponse(TRUE, Cardinality(enjo_cases))
                   ELSE HealthResponse(FALSE, 0)
    /\ invoked' = { "store" }
    /\ enjo_cases' = store_after_handler(db_status, enjo_cases)
    /\ UNCHANGED << scoring_system, text, risk_score, first_score, recommendations, aux_text,
                    aux_score, recalled, entry, db_status >>
    /\ UNCHANGED other_vars

\* scoring_system.analyze_text(text) called on the engine of src/main.py
\* directly, not through the request layer
EngineCall ==
    /\ entry = "main"
    /\ AnalyzeText

\* the next request arrives with text t
NewRequest(t) ==
    /\ response # NoResponse
    /\ text' = t
    /\ response' = NoResponse
    /\ invoked' = {}
    /\ risk_score' = NoScore
    /\ first_score' = NoScore
    /\ UNCHANGED << scoring_system, recommendations, aux_text, aux_score, recalled,
                    entry, db_status, enjo_cases >>
    /\ UNCHANGED other_vars

NextService ==
    \/ PostAnalyzeMain
    \/ PostAnalyzeSimple
    \/ PostAnalyzeApi
    \/ GetHealth
    \/ EngineCall
    \/ \E t \in RequestTexts : NewRequest(t)

SpecService == InitService /\ [][NextService]_vars

(***************************************************************************)
(* Concurrent request handlers on the one process-wide scoring_system.     *)
(* A handler's analyze_text call is the sequence of its method calls, each *)
(* reading self; the calls of different handlers interleave between them.  *)
(***************************************************************************)
\* number of handlers running at once
MaxHandlers == 2

Handlers == 1..MaxHandlers

IdleCall ==
    [ pc |-> "idle", text |-> NoText, overlapped |-> FALSE, risk_score |-> NoScore,
      recommendations |-> NoRecommendations ]

InFlight(c) == c.pc \notin { "idle", "done" }

\* one process, its scoring_system, no call started yet
InitConcurrent ==
    /\ scoring_system \in { MainScoringSystem, AdvScoringSystem }
    /\ text = NoText
    /\ NoCalls
    /\ NoService
    /\ calls = [ h \in Handlers |-> IdleCall ]
    /\ op_args = NoArgs
    /\ op_result = NoResult
    /\ learning_data = EmptyLearningData

\* mutant: the call drops the low tier from the catalog after reading it
get_recommendations_self_tunes(self, score) ==
    [ self EXCEPT !.risk_patterns = SubSeq(@, 1, Len(@) - 1) ]

\* what a call of get_recommendations leaves on self: the method reads
\* risk_score only
get_recommendations_self(self, score) == self

\* handler h moves from step `from` to step `to` with its call record
\* changed to c; the call has overlapped another if one was in flight
StepCall(h, from, to, c) ==
    /\ calls[h].pc = from
    /\ calls' = [ calls EXCEPT ![h] =
                    [ c EXCEPT !.pc = to,
                               !.overlapped = @ \/ \E g \in Handlers \ { h } : InFlight(calls[g]) ] ]
    /\ UNCHANGED << text, risk_score, first_score, recommendations, aux_text, aux_score, recalled,
                    op_args, op_result, learning_data >>
    /\ UNCHANGED service_vars

\* a handler enters scoring_system.analyze_text(t)
StartCall(h, t) ==
    /\ calls[h].pc \in { "idle", "done" }
    /\ calls' = [ calls EXCEPT ![h] = [ IdleCall EXCEPT !.pc = "content", !.text = t ] ]
    /\ UNCHANGED << scoring_system, text, risk_score, first_score, recommendations, aux_text,
                    aux_score, recalled, op_args, op_result, learning_data >>
    /\ UNCHANGED service_vars

\* content_risk = self._calculate_content_risk(text)
CallContentRisk(h) ==
    /\ StepCall(h, "content", "legal",
                [ calls[h] EXCEPT !.risk_score.content_risk =
                                      calculate_content_risk(scoring_system, calls[h].text) ])
    /\ scoring_system' = analyze_text_self(scoring_system, calls[h].text)

\* legal_risk = self._calculate_legal_risk(text)
CallLegalRisk(h) ==
    /\ StepCall(h, "legal", "brand",
                [ calls[h] EXCEPT !.risk_score.legal_risk =
                                      calculate_legal_risk(scoring_system, calls[h].text) ])
    /\ scoring_system' = analyze_text_self(scoring_system, calls[h].text)

\* brand_risk = self._calculate_brand_risk(text)
CallBrandRisk(h) ==
    /\ StepCall(h, "brand", "social",
                [ calls[h] EXCEPT !.risk_score.brand_risk =
                                      calculate_brand_risk(scoring_system, calls[h].text) ])
    /\ scoring_system' = analyze_text_self(scoring_system, calls[h].text)

\* social_risk = self._calculate_social_risk(text)
CallSocialRisk(h) ==
    /\ StepCall(h, "social", "overall",
                [ calls[h] EXCEPT !.risk_score.social_risk =
                                      calculate_social_risk(scoring_system, calls[h].text) ])
    /\ scoring_system' = analyze_text_self(scoring_system, calls[h].text)

\* overall_score = self._calculate_overall_score(content_risk, legal_risk, brand_risk, social_risk)
CallOverallScore(h) ==
    /\ StepCall(h, "overall", "category",
                [ calls[h] EXCEPT !.risk_score.overall_score =
                    calculate_overall_score(calls[h].risk_score.content_risk,
                                            calls[h].risk_score.legal_risk,
                                            calls[h].risk_score.brand_risk,
                                            calls[h].risk_score.social_risk) ])
    /\ scoring_system' = analyze_text_self(scoring_system, calls[h].text)

\* category = self._identify_category(text)
CallIdentifyCategory(h) ==
    /\ StepCall(h, "category", "confidence",
                [ calls[h] EXCEPT !.risk_score.category =
                                      identify_category(scoring_system, calls[h].text) ])
    /\ scoring_system' = analyze_text_self(scoring_system, calls[h].text)

\* confidence = self._calculate_confidence(text); return RiskScore(...)
CallConfidence(h) ==
    /\ StepCall(h, "confidence", "recommend",
                [ calls[h] EXCEPT !.risk_score.confidence =
                                      calculate_confidence(scoring_system, calls[h].text) ])
    /\ scoring_system' = analyze_text_self(scoring_system, calls[h].text)

\* recommendations = scoring_system.get_recommendations(risk_score)
CallGetRecommendations(h) ==
    /\ StepCall(h, "recommend", "done",
                [ calls[h] EXCEPT !.recommendations = get_recommendations(calls[h].risk_score) ])
    /\ scoring_system' = get_recommendations_self(scoring_system, calls[h].risk_score)

NextConcurrent ==
    \E h \in Handlers :
        \/ \E t \in OtherTexts : StartCall(h, t)
        \/ CallContentRisk(h)
        \/ CallLegalRisk(h)
        \/ CallBrandRisk(h)
        \/ CallSocialRisk(h)
        \/ CallOverallScore(h)
        \/ CallIdentifyCategory(h)
        \/ CallConfidence(h)
        \/ CallGetRecommendations(h)

SpecConcurrent == InitConcurrent /\ [][NextConcurrent]_vars

(***************************************************************************)
(* get_recommendations on its own: any RiskScore may be passed to it.      *)
(***************************************************************************)
\* scores on both sides of the thresholds 60 and 80, confidences on both sides of 0.5
FactorEdges == { 0, 59, 60, 100 }
ContentEdges == { 0, 79, 80, 100 }
ConfidenceEdges == { 0, 49, 50, 100 }

InitRecommend ==
    /\ scoring_system \in { MainScoringSystem, AdvScoringSystem }
    /\ text = NoText
    /\ risk_score \in [ overall_score : { 0 }, content_risk : ContentEdges,
                        legal_risk : FactorEdges, brand_risk : FactorEdges,
                        social_risk : FactorEdges, category : { OtherCategory },
                        confidence : ConfidenceEdges ]
    /\ first_score = NoScore
    /\ recommendations = NoRecommendations
    /\ aux_text = NoText
    /\ aux_score = NoScore
    /\ recalled = FALSE
    /\ NoService
    /\ NoOthers

NextRecommend == GetRecommendations

SpecRecommend == InitRecommend /\ [][NextRecommend]_vars

(***************************************************************************)
(* Dilution: one severe match and a growing number of low-tier matches.    *)
(***************************************************************************)
\* the most low-tier words a text under analysis carries
MaxLowMatches == 6

\* '男' is extreme tier in main.py and high tier in advanced_scoring.py, 'クソ' is high tier in both
SevereWords == { OTOKO, KUSO }

\* the word w written k times
RECURSIVE Repeated(_, _)
Repeated(w, k) == IF k = 0 THEN << >> ELSE w \o Repeated(w, k - 1)

DilutedTexts == { w \o Repeated(SAIKOU, k) : w \in SevereWords, k \in 0..MaxLowMatches }

InitDilution ==
    /\ scoring_system \in { MainScoringSystem, AdvScoringSystem }
    /\ text \in DilutedTexts
    /\ NoCalls
    /\ NoService
    /\ NoOthers

\* the text is analysed, and so is the text with one more low-tier word
NextDilution ==
    \/ AnalyzeText
    \/ AnalyzeOther(text \o SAIKOU)

SpecDilution == InitDilution /\ [][NextDilution]_vars

(***************************************************************************)
(* _calculate_overall_score on its own, on any four factor scores.         *)
(***************************************************************************)
\* the factor scores passed are 0..MaxFactor and the top score 100
MaxFactor == 6

FactorScores == 0..MaxFactor \cup { 100 }

InitOverall ==
    /\ scoring_system \in { MainScoringSystem, AdvScoringSystem }
    /\ text = NoText
    /\ NoCalls
    /\ NoService
    /\ calls = << >>
    /\ op_args \in FactorScores \X FactorScores \X FactorScores \X FactorScores
    /\ op_result = NoResult
    /\ learning_data = EmptyLearningData

\* self._calculate_overall_score(content_risk, legal_risk, brand_risk, social_risk)
OverallScore ==
    /\ op_result = NoResult
    /\ op_result' = calculate_overall_score(op_args[1], op_args[2], op_args[3], op_args[4])
    /\ UNCHANGED << scoring_system, text, risk_score, first_score, recommendations, aux_text,
                    aux_score, recalled, calls, op_args, learning_data >>
    /\ UNCHANGED service_vars

NextOverall == OverallScore

SpecOverall == InitOverall /\ [][NextOverall]_vars

(***************************************************************************)
(* _calculate_confidence: the arithmetic on any text length and keyword    *)
(* count, and the count it takes from a text.                              *)
(***************************************************************************)
\* text lengths up to just past the 100 characters that saturate length_factor
MaxLength == 101
\* keyword counts up to just past the 5 matches that saturate keyword_factor
MaxCount == 6

\* texts with no match, with a match in another letter case, with a repeated match
ConfidenceTexts == { << >>, SEI, CO2LOW, KUNI \o SAIKOU \o KUNI }

NoSecondCall == << >>

InitConfidence ==
    /\ scoring_system \in { MainScoringSystem, AdvScoringSystem }
    /\ text \in ConfidenceTexts
    /\ NoCalls
    /\ NoService
    /\ calls = NoSecondCall
    /\ op_args \in (0..MaxLength) \X (0..MaxCount)
    /\ op_result = NoResult
    /\ learning_data = EmptyLearningData

\* confidence for a text of op_args[1] characters with op_args[2] matches
Confidence ==
    /\ op_result = NoResult
    /\ op_result' = confidence_from(op_args[1], op_args[2])
    /\ UNCHANGED << scoring_system, text, risk_score, first_score, recommendations, aux_text,
                    aux_score, recalled, calls, op_args, learning_data >>
    /\ UNCHANGED service_vars

\* confidence for a text one character longer (more = <<1, 0>>) or with one
\* more match (more = <<0, 1>>)
ConfidenceOfMore(more) ==
    /\ op_result # NoResult
    /\ calls = NoSecondCall
    /\ calls' = << [ args   |-> << op_args[1] + more[1], op_args[2] + more[2] >>,
                     result |-> confidence_from(op_args[1] + more[1], op_args[2] + more[2]) ] >>
    /\ UNCHANGED << scoring_system, text, risk_score, first_score, recommendations, aux_text,
                    aux_score, recalled, op_args, op_result, learning_data >>
    /\ UNCHANGED service_vars

NextConfidence ==
    \/ Confidence
    \/ ConfidenceOfMore(<< 1, 0 >>)
    \/ ConfidenceOfMore(<< 0, 1 >>)
    \/ risk_score = NoScore /\ AnalyzeText

SpecConfidence == InitConfidence /\ [][NextConfidence]_vars

(***************************************************************************)
(* extract_keywords_advanced and search_related_cases called on their own, *)
(* on any text and store; the same text may be extracted again by another  *)
(* run of the interpreter.                                                 *)
(***************************************************************************)
\* the most runs of extract_keywords_advanced on one text
MaxRuns == 2
\* the largest `limit` passed to search_related_cases
MaxLimit == 3

\* '労働社会': eleven priority keywords
ROUDOU_SHAKAI == << 21172, 20685, 31038, 20250 >>
\* 'クソ最高 男': six normal keywords
KUSO_SAIKOU_OTOKO == << 12463, 12477, 26368, 39640, 32, 30007 >>

\* the empty text, a text without any term, two words, and the two texts
\* whose keywords overflow a slice
SearchTexts == { << >>, SEI, KUSO_SAIKOU, ROUDOU_SHAKAI, KUSO_SAIKOU_OTOKO }

SearchModules == { "main", "main_simple" }

InitSearch ==
    /\ scoring_system = MainScoringSystem
    /\ text \in SearchTexts
    /\ NoCalls
    /\ entry \in SearchModules
    /\ db_status = "ok"
    /\ enjo_cases \in SUBSET IncidentPool
    /\ response = NoResponse
    /\ invoked = {}
    /\ calls = << >>
    /\ op_args = NoArgs
    /\ op_result = NoResult
    /\ learning_data = EmptyLearningData

KeywordCall(kw) ==
    [ op |-> "extract_keywords_advanced", priority |-> kw.priority, normal |-> kw.normal,
      filtered |-> FALSE, limit |-> 0, rows |-> << >> ]

SearchCall(priority, normal, filtered, limit, rows) ==
    [ op |-> "search_related_cases", priority |-> priority, normal |-> normal,
      filtered |-> filtered, limit |-> limit, rows |-> rows ]

UnchangedBySearch ==
    /\ UNCHANGED << scoring_system, text, risk_score, first_score, recommendations, aux_text,
                    aux_score, recalled, entry, db_status, response, invoked, op_args, op_result,
                    learning_data >>

\* extract_keywords_advanced(text) of src/main.py, in one more run
ExtractKeywords ==
    /\ entry = "main"
    /\ Len(calls) < MaxRuns
    /\ \A i \in DOMAIN calls : calls[i].op = "extract_keywords_advanced"
    /\ \E kw \in extract_keywords_advanced(text) : calls' = Append(calls, KeywordCall(kw))
    /\ UNCHANGED enjo_cases
    /\ UnchangedBySearch

\* search_related_cases(text, limit) of src/main.py
SearchRelatedCasesMain(limit) ==
    /\ entry = "main"
    /\ calls = << >>
    /\ \E kw \in extract_keywords_advanced(text) :
         \E q \in main_query(enjo_cases, kw.priority \cup kw.normal, limit) :
            calls' = << SearchCall(kw.priority, kw.normal, kw.priority \cup kw.normal # {},
                                   limit, q) >>
    /\ enjo_cases' = store_after_select(enjo_cases)
    /\ UnchangedBySearch

\* search_related_cases(text, limit) of src/main_simple.py
SearchRelatedCasesSimple(limit) ==
    /\ entry = "main_simple"
    /\ calls = << >>
    /\ \E q \in simple_search_related_cases(db_status, enjo_cases, text, limit) :
            calls' = << SearchCall({}, Range(simple_keywords(text)),
                                   simple_keywords(text) # << >>, limit, q) >>
    /\ enjo_cases' = store_after_select(enjo_cases)
    /\ UnchangedBySearch

NextSearch ==
    \/ ExtractKeywords
    \/ \E limit \in 1..MaxLimit : SearchRelatedCasesMain(limit)
    \/ \E limit \in 1..MaxLimit : SearchRelatedCasesSimple(limit)

SpecSearch == InitSearch /\ [][NextSearch]_vars

(***************************************************************************)
(* src/import_csv_data.py: import_csv_to_database on a CSV file and the    *)
(* incident store.  enjo_cases is what is committed; the rows inserted by  *)
(* the open transaction are held by the call until commit or rollback.     *)
(***************************************************************************)
\* the most data rows of a CSV file
MaxCsvRows == 3

\* a data row is "ok", or "bad" when its INSERT (or the preparation of its
\* values) raises: a short row whose required field is None, a locked store
CsvRowKinds == { "ok", "bad" }

CsvFiles ==
    [ exists : BOOLEAN, has_required_columns : BOOLEAN,
      rows : UNION { [ 1..n -> CsvRowKinds ] : n \in 0..MaxCsvRows } ]

\* the incident INSERTed for data row i: 'クソ', '最高', '2024-07-01', '不適切な表現', '最高', no company_info
CsvIncident(i) ==
    [ incident_id |-> Cardinality(IncidentPool) + i, title |-> KUSO, incident_text |-> SAIKOU,
      incident_date |-> << 50,48,50,52,45,48,55,45,48,49 >>,
      cause_category |-> << 19981,36969,20999,12394,34920,29694 >>,
      reasoning_text |-> SAIKOU, company_info |-> NULL ]

ImportCall(pc, conn, pending, next, returned, before) ==
    [ pc |-> pc, conn |-> conn, pending |-> pending, next |-> next, returned |-> returned,
      before |-> before ]

InitImport ==
    /\ scoring_system = MainScoringSystem
    /\ text = NoText
    /\ NoCalls
    /\ entry = "none"
    /\ db_status = "ok"
    /\ enjo_cases \in { {}, IncidentPool }
    /\ response = NoResponse
    /\ invoked = {}
    /\ op_args \in CsvFiles
    /\ op_args.exists \/ (op_args.has_required_columns /\ op_args.rows = << >>)
    /\ calls = ImportCall("exists", "none", {}, 1, "none", enjo_cases)
    /\ op_result = NoResult
    /\ learning_data = EmptyLearningData

UnchangedByImport ==
    /\ UNCHANGED << scoring_system, text, risk_score, first_score, recommendations, aux_text,
                    aux_score, recalled, entry, db_status, response, invoked, op_args, op_result,
                    learning_data >>

\* mutant: every INSERT is committed at once
execute_insert_autocommit(committed, pending, row) ==
    [ committed |-> committed \cup { row }, pending |-> pending ]

\* cursor.execute(insert_sql, ...): the row joins the open transaction
execute_insert(committed, pending, row) ==
    [ committed |-> committed, pending |-> pending \cup { row } ]

\* if not os.path.exists(csv_file_path): return False; else sqlite3.connect(db_path)
ImportOpen ==
    /\ calls.pc = "exists"
    /\ calls' = IF op_args.exists
                THEN [ calls EXCEPT !.pc = "columns", !.conn = "open" ]
                ELSE [ calls EXCEPT !.pc = "done", !.returned = "False" ]
    /\ UNCHANGED enjo_cases
    /\ UnchangedByImport

\* the required-columns check: return False (finally: conn.close()) or go on to the rows
ImportCheckColumns ==
    /\ calls.pc = "columns"
    /\ calls' = IF op_args.has_required_columns
                THEN [ calls EXCEPT !.pc = "rows" ]
                ELSE [ calls EXCEPT !.pc = "done", !.returned = "False", !.conn = "closed" ]
    /\ UNCHANGED enjo_cases
    /\ UnchangedByImport

\* one pass of `for row in reader`: the INSERT, or the exception it raises
\* (except: conn.rollback(); return False; finally: conn.close())
ImportRow ==
    /\ calls.pc = "rows"
    /\ calls.next <= Len(op_args.rows)
    /\ IF op_args.rows[calls.next] = "ok"
       THEN LET db == execute_insert(enjo_cases, calls.pending, CsvIncident(calls.next))
            IN  /\ enjo_cases' = db.committed
                /\ calls' = [ calls EXCEPT !.pending = db.pending, !.next = @ + 1 ]
       ELSE /\ enjo_cases' = enjo_cases
            /\ calls' = [ calls EXCEPT !.pc = "done", !.pending = {}, !.returned = "False",
                                       !.conn = "closed" ]
    /\ UnchangedByImport

\* after the last row: conn.commit(), the statistics, return True (finally: conn.close())
ImportCommit ==
    /\ calls.pc = "rows"
    /\ calls.next > Len(op_args.rows)
    /\ enjo_cases' = enjo_cases \cup calls.pending
    /\ calls' = [ calls EXCEPT !.pc = "done", !.pending = {}, !.returned = "True",
                               !.conn = "closed" ]
    /\ UnchangedByImport

NextImport ==
    \/ ImportOpen
    \/ ImportCheckColumns
    \/ ImportRow
    \/ ImportCommit

SpecImport == InitImport /\ [][NextImport]_vars

(***************************************************************************)
(* Claims                                                                  *)
(***************************************************************************)
InRange(r) ==
    /\ r.content_risk \in 0..100
    /\ r.legal_risk \in 0..100
    /\ r.brand_risk \in 0..100
    /\ r.social_risk \in 0..100
    /\ r.overall_score \in 0..100
    /\ r.confidence \in 0..100

\* C1: every RiskScore analyze_text returns has content_risk, legal_risk,
\* brand_risk, social_risk and overall_score in 0..100 and confidence in
\* 0.0..1.0 (0..100 hundredths), for both classes and every text.
C1_ScoresInRange ==
    /\ risk_score # NoScore => InRange(risk_score)
    /\ aux_score # NoScore => InRange(aux_score)

\* C1 witness: the dense text was analysed and its legal and social sums,
\* which pass 100, came out as 100.
C1_Witness ==
    /\ text = DenseText
    /\ risk_score # NoScore
    /\ 20 * factor_hits(scoring_system.legal_risk_factors, text) > 100
    /\ 10 * factor_hits(scoring_system.social_risk_factors, text) > 100
    /\ risk_score.legal_risk = 100
    /\ risk_score.social_risk = 100

NoCategoryHit(self, s) == \A c \in DOMAIN categories(self) : category_scores(self, s)[c] = 0

\* C2: a text with no category keyword (every per-category count is zero,
\* the empty text included) is classified 'その他'; the classifier never returns
\* a category with zero hits.
C2_NoHitIsOther ==
    (risk_score # NoScore /\ NoCategoryHit(scoring_system, text))
        => risk_score.category = OtherCategory

NoCatalogMatch(self, s) == total_matches(pattern_matches(self, s)) = 0

\* C3: a text that matches no catalog pattern and contains no legal, brand or
\* social trigger keyword gets content_risk = 10 and legal_risk = brand_risk =
\* social_risk = 0.
C3_NoMatchDefaults ==
    (risk_score # NoScore /\ NoCatalogMatch(scoring_system, text)
                          /\ trigger_keywords(scoring_system, text) = {})
        => /\ risk_score.content_risk = 10
           /\ risk_score.legal_risk = 0
           /\ risk_score.brand_risk = 0
           /\ risk_score.social_risk = 0

\* C3 witness: a non-empty text without any match ('性') was analysed.
C3_Witness ==
    /\ text # << >>
    /\ risk_score # NoScore
    /\ NoCatalogMatch(scoring_system, text)
    /\ trigger_keywords(scoring_system, text) = {}

\* '極めて危険な表現'
ExtremelyDangerous == << 26997, 12417, 12390, 21361, 38522, 12394, 34920, 29694 >>
\* '不適切な表現'
Inappropriate == << 19981, 36969, 20999, 12394, 34920, 29694 >>

\* every catalog match of the text, as the matched strings
catalog_matches(self, s) ==
    UNION { UNION { Range(re_findall(self.risk_patterns[t].patterns[p], s, TRUE)) :
                      p \in DOMAIN self.risk_patterns[t].patterns } :
            t \in DOMAIN self.risk_patterns }

\* the text's only risk term is '殺す': one catalog match, no other trigger keyword
OnlyKorosu(self, s) ==
    /\ self.class = "main"
    /\ total_matches(pattern_matches(self, s)) = 1
    /\ catalog_matches(self, s) = { KOROSU }
    /\ trigger_keywords(self, s) = { KOROSU }

\* C4 as claimed: for a text whose only risk term is '殺す', content_risk is
\* near 95 (within 5), the category is '極めて危険な表現' and the recommendations
\* include the legal-review advisory.
C4_AsClaimed ==
    (OnlyKorosu(scoring_system, text) /\ risk_score # NoScore
                                      /\ recommendations # NoRecommendations)
        => /\ risk_score.content_risk \in 90..100
           /\ risk_score.category = ExtremelyDangerous
           /\ "legal_review" \in Range(recommendations)

\* C4 amended: for a text whose only risk term is '殺す', content_risk is 100
\* (the contribution 4.0 * 95 capped), the category is '極めて危険な表現',
\* legal_risk is 20 (one keyword of 脅迫罪), below the threshold 60, so the
\* recommendations do not include the legal-review advisory; they include the
\* content-review advisory.
C4_KorosuNoLegalReview ==
    (OnlyKorosu(scoring_system, text) /\ risk_score # NoScore
                                      /\ recommendations # NoRecommendations)
        => /\ risk_score.content_risk = 100
           /\ risk_score.category = ExtremelyDangerous
           /\ risk_score.legal_risk = 20
           /\ "legal_review" \notin Range(recommendations)
           /\ "content_review" \in Range(recommendations)

\* C4 witness: '殺す' was analysed by the class of main.py and the
\* recommendations were generated.
C4_Witness ==
    /\ text = KOROSU
    /\ OnlyKorosu(scoring_system, text)
    /\ risk_score # NoScore
    /\ recommendations # NoRecommendations

\* C5 as claimed: the sample text gets overall_score in 30..50, category
\* '不適切な表現' and confidence > 0.
C5_AsClaimed ==
    (text = SampleText /\ risk_score # NoScore)
        => /\ risk_score.overall_score \in 30..50
           /\ risk_score.category = Inappropriate
           /\ risk_score.confidence > 0

\* C5 amended: the sample text (five catalog matches) gets content_risk 64,
\* brand_risk 15, legal_risk 0 and social_risk 0, hence overall_score 28, below
\* the range 30..50; the category is '不適切な表現' and confidence is 0.73 > 0.
C5_SampleScores28 ==
    (text = SampleText /\ risk_score # NoScore)
        => /\ total_matches(pattern_matches(scoring_system, text)) = 5
           /\ risk_score.content_risk = 64
           /\ risk_score.legal_risk = 0
           /\ risk_score.brand_risk = 15
           /\ risk_score.social_risk = 0
           /\ risk_score.overall_score = 28
           /\ risk_score.category = Inappropriate
           /\ risk_score.confidence = 73

\* C5 witness: the sample text was analysed.
C5_Witness == text = SampleText /\ risk_score # NoScore /\ risk_score.overall_score = 28

\* the request was answered with an analysis (not an error)
Answered == response.request = "analyze" /\ response.status = 200 /\ ~response.error

\* the search of the deployed service works from at least one keyword
KeywordsExist ==
    IF entry = "main" THEN \E kw \in extract_keywords_advanced(text) : kw.priority \cup kw.normal # {}
    ELSE simple_keywords(text) # << >>

\* C6: when keywords exist, the related incidents of a response are at most
\* limit = 3 and stand in category-priority order (5, 4, 3, 2, else 1), highest
\* first, and within one priority by incident date descending, in every service
\* entry point.
C6_AsClaimed ==
    (Answered /\ KeywordsExist)
        => /\ Len(response.related_cases) <= 3
           /\ \A i, j \in DOMAIN response.related_cases :
                i < j => by_priority_then_date(response.related_cases[i], response.related_cases[j])

\* C7: when the incident store is missing or cannot be read, a valid /analyze
\* request is answered with a RiskScore and an empty related-incident list,
\* never with an error.
C7_AsClaimed ==
    (db_status # "ok" /\ response.request = "analyze" /\ valid_request(text))
        => /\ Answered
           /\ response.risk_score # NoScore
           /\ response.related_cases = << >>

\* the categories that reach the highest keyword-hit count of the text
TopCategories(self, s) ==
    LET scores == category_scores(self, s)
    IN  { c \in DOMAIN scores : \A d \in DOMAIN scores : scores[d] <= scores[c] }

Tie(self, s) ==
    /\ Cardinality(TopCategories(self, s)) >= 2
    /\ \E c \in TopCategories(self, s) : category_scores(self, s)[c] >= 1

\* C8: when two or more categories share the highest hit count (>= 1), the
\* category returned is the one declared first in the table, on every call.
C8_TieFirstDeclared ==
    (risk_score # NoScore /\ Tie(scoring_system, text))
        => LET top   == TopCategories(scoring_system, text)
               first == CHOOSE c \in top : \A d \in top : c <= d
           IN  /\ risk_score.category = categories(scoring_system)[first].category
               /\ first_score.category = risk_score.category

\* C8 witness: a tied text ('老人': 差別的表現 and 人権侵害, one hit each) was analysed.
C8_Witness == risk_score # NoScore /\ Tie(scoring_system, text) /\ text = ROUJIN

\* C9: extending a text by one more occurrence of a legal (brand, social)
\* trigger keyword it already contains never lowers legal_risk (brand_risk,
\* social_risk).
C9_FactorMonotone ==
    (risk_score # NoScore /\ aux_score # NoScore) =>
        /\ (\E k \in contained_keywords(scoring_system.legal_risk_factors, text) :
                aux_text = text \o k) => aux_score.legal_risk >= risk_score.legal_risk
        /\ (\E k \in contained_keywords(scoring_system.brand_risk_factors, text) :
                aux_text = text \o k) => aux_score.brand_risk >= risk_score.brand_risk
        /\ (\E k \in contained_keywords(scoring_system.social_risk_factors, text) :
                aux_text = text \o k) => aux_score.social_risk >= risk_score.social_risk

\* C9 witness: a text with a legal keyword was analysed, then the text with
\* one more occurrence of that keyword.
C9_Witness ==
    /\ risk_score # NoScore
    /\ aux_score # NoScore
    /\ \E k \in contained_keywords(scoring_system.legal_risk_factors, text) : aux_text = text \o k
    /\ risk_score.legal_risk >= 20

\* C10: every call of analyze_text on the text returns the RiskScore of the
\* first call, whatever calls on other texts were made in between.
C10_SameScoreAgain == risk_score # NoScore => risk_score = first_score

\* C10 witness: the text was analysed, another text was analysed, and the
\* text was analysed again.
C10_Witness == recalled /\ risk_score # NoScore /\ aux_score # NoScore

\* the state __init__ gives an instance of the class of self
Constructed(self) == IF self.class = "main" THEN MainScoringSystem ELSE AdvScoringSystem

\* C11: whatever the interleaving of the handlers' analyze_text and
\* get_recommendations calls on the shared scoring_system, every finished call
\* holds the RiskScore and the advisories it would get alone on a freshly
\* constructed instance, and the shared instance is as __init__ left it.
C11_CallsAsAlone ==
    /\ scoring_system = Constructed(scoring_system)
    /\ \A h \in DOMAIN calls :
          calls[h].pc = "done" =>
             /\ calls[h].risk_score = analyze_text(Constructed(scoring_system), calls[h].text)
             /\ calls[h].recommendations = get_recommendations(calls[h].risk_score)

\* C11 witness: two handlers finished calls on different texts, each having
\* run while the other was in flight.
C11_Witness ==
    /\ calls # << >>
    /\ \E g, h \in DOMAIN calls :
          /\ g # h
          /\ calls[g].pc = "done" /\ calls[h].pc = "done"
          /\ calls[g].overlapped /\ calls[h].overlapped
          /\ calls[g].text # calls[h].text

\* the rules of get_recommendations in their order, each with its condition
AdvisoryRules == << "legal_review", "pr_strategy", "sns_monitoring", "content_review",
                    "low_confidence" >>

RuleHolds(rule, score) ==
    \/ rule = "legal_review" /\ score.legal_risk >= 60
    \/ rule = "pr_strategy" /\ score.brand_risk >= 60
    \/ rule = "sns_monitoring" /\ score.social_risk >= 60
    \/ rule = "content_review" /\ score.content_risk >= 80
    \/ rule = "low_confidence" /\ score.confidence < 50

\* C12: get_recommendations returns exactly the advisories whose condition
\* holds for the RiskScore, each once, in the order legal, brand, social,
\* content, confidence; the empty list when none holds.
C12_ExactAdvisories ==
    recommendations # NoRecommendations =>
        /\ \A r \in Range(AdvisoryRules) :
              RuleHolds(r, risk_score) <=> r \in Range(recommendations)
        /\ \A i, j \in DOMAIN recommendations :
              i < j => \E a, b \in DOMAIN AdvisoryRules :
                          /\ a < b
                          /\ AdvisoryRules[a] = recommendations[i]
                          /\ AdvisoryRules[b] = recommendations[j]
        /\ ((\A r \in Range(AdvisoryRules) : ~RuleHolds(r, risk_score))
               => recommendations = << >>)

\* C12 witness: all five conditions hold for the RiskScore and the five
\* advisories came back in rule order.
C12_Witness ==
    /\ recommendations = AdvisoryRules
    /\ \A r \in Range(AdvisoryRules) : RuleHolds(r, risk_score)

\* C13: an /analyze request with the empty text gets an error outcome and its
\* handler calls neither the scorer nor the incident store; the engine called
\* directly with the empty text returns a RiskScore (every field in range).
C13_EmptyTextRequestLayer ==
    /\ (text = << >> /\ response.request = "analyze")
          => (response.error /\ response.risk_score = NoScore /\ invoked = {})
    /\ (text = << >> /\ risk_score # NoScore) => InRange(risk_score)

\* C13 witness: the engine of src/main.py was called with the empty text and
\* returned a RiskScore, and the /analyze request with the empty text was
\* refused.
C13_Witness ==
    /\ text = << >>
    /\ risk_score # NoScore
    /\ risk_score.content_risk = 10
    /\ response.request = "analyze"
    /\ response.error

\* C14: no step of the analysis path (the /analyze handlers with their
\* search_related_cases, the /health handlers) changes the rows of the
\* incident store.
C14_StoreReadOnly == [][enjo_cases' = enjo_cases]_vars

\* C14 witness: a request was answered with related incidents read from a
\* store that holds them.
C14_Witness ==
    /\ Answered
    /\ "store" \in invoked
    /\ response.related_cases # << >>
    /\ \A i \in DOMAIN response.related_cases :
          \E r \in enjo_cases : r.incident_id = response.related_cases[i].incident_id

\* occurrences of a pattern in a text, counted by position, letter case ignored
Occurrences(pattern, s) ==
    Cardinality({ i \in 1..Len(s) :
                    \E a \in DOMAIN pattern : MatchesAt(pattern[a], s, i, TRUE) })

\* matches of one tier: the occurrences of its patterns, added up
TierMatches(self, t, s) ==
    SumSeq([ p \in DOMAIN self.risk_patterns[t].patterns |->
                Occurrences(self.risk_patterns[t].patterns[p], s) ])

\* r is 10 without a match, else floor(score / total_matches) capped at 100
ContentRiskFormula(self, s, r) ==
    LET total == SumSeq([ t \in DOMAIN self.risk_patterns |-> TierMatches(self, t, s) ])
        score == SumSeq([ t \in DOMAIN self.risk_patterns |->
                    TierMatches(self, t, s) * self.risk_patterns[t].weight
                                            * self.risk_patterns[t].base_score ])
    IN  IF total = 0 THEN r = 10
        ELSE IF score >= 100 * total THEN r = 100
        ELSE r * total <= score /\ score < (r + 1) * total

\* C15: content_risk is 10 when no pattern of the catalog matches and
\* otherwise floor(score / total_matches) capped at 100, where every match
\* (case-insensitive, repeated matches counted) adds weight * base_score of
\* its tier to score and 1 to total_matches.
C15_ContentRiskFormula ==
    /\ risk_score # NoScore
          => ContentRiskFormula(scoring_system, text, risk_score.content_risk)
    /\ aux_score # NoScore
          => ContentRiskFormula(scoring_system, aux_text, aux_score.content_risk)

\* C15 witness: '国最高国' holds the medium-tier '国' twice and a low-tier
\* word once: (100 + 20 + 100) / 3 gives 73.
C15_Witness ==
    /\ scoring_system.class = "main"
    /\ aux_text = KUNI \o SAIKOU \o KUNI
    /\ TierMatches(scoring_system, 3, aux_text) = 2
    /\ aux_score.content_risk = 73

\* matches of the tier called `name` (0 when self's catalog has no such tier)
NamedTierMatches(self, name, s) ==
    SumSeq([ t \in DOMAIN self.risk_patterns |->
                IF self.risk_patterns[t].tier = name THEN TierMatches(self, t, s) ELSE 0 ])

AllMatches(self, s) ==
    SumSeq([ t \in DOMAIN self.risk_patterns |-> TierMatches(self, t, s) ])

\* exactly one extreme-tier match and nothing else / and exactly one low-tier match
OneExtremeOnly(self, s) ==
    NamedTierMatches(self, "extreme_risk", s) = 1 /\ AllMatches(self, s) = 1

OneExtremeOneLow(self, s) ==
    /\ NamedTierMatches(self, "extreme_risk", s) = 1
    /\ NamedTierMatches(self, "low_risk", s) = 1
    /\ AllMatches(self, s) = 2

About(r, v) == r \in (v - 1)..(v + 1)

\* C16 as the specification states it: one extreme-tier match alone gives a
\* content_risk of about 95, one extreme-tier and one low-tier match about 57.
C16_AsClaimed ==
    risk_score # NoScore =>
        /\ OneExtremeOnly(scoring_system, text) => About(risk_score.content_risk, 95)
        /\ OneExtremeOneLow(scoring_system, text) => About(risk_score.content_risk, 57)

\* C16: content_risk averages weight * base_score per match and caps the
\* average at 100: one extreme-tier match alone gives 100 (4.0 * 95 = 380,
\* capped), and one extreme-tier plus one low-tier match gives 100 as well
\* ((380 + 20) / 2 = 200, capped).
C16_ExtremeCapped ==
    risk_score # NoScore =>
        /\ OneExtremeOnly(scoring_system, text) => risk_score.content_risk = 100
        /\ OneExtremeOneLow(scoring_system, text) => risk_score.content_risk = 100

\* C16 witness: '男最高' has the extreme-tier '男' once and the low-tier
\* '最高' once, and was scored 100.
C16_Witness ==
    /\ text = OTOKO \o SAIKOU
    /\ OneExtremeOneLow(scoring_system, text)
    /\ risk_score.content_risk = 100

SevereMatches(self, s) ==
    NamedTierMatches(self, "extreme_risk", s) + NamedTierMatches(self, "high_risk", s)

\* s has exactly one extreme- or high-tier match and otherwise low-tier
\* matches only, and d has the same with one low-tier match more
OneMoreLowMatch(self, s, d) ==
    /\ SevereMatches(self, s) = 1
    /\ SevereMatches(self, d) = 1
    /\ AllMatches(self, s) = 1 + NamedTierMatches(self, "low_risk", s)
    /\ AllMatches(self, d) = 1 + NamedTierMatches(self, "low_risk", d)
    /\ NamedTierMatches(self, "low_risk", d) = NamedTierMatches(self, "low_risk", s) + 1

BothScored ==
    /\ risk_score # NoScore
    /\ aux_score # NoScore
    /\ OneMoreLowMatch(scoring_system, text, aux_text)

\* C17 as the specification states it: with one severe match, k + 1 low-tier
\* matches give a strictly lower content_risk than k, for every k >= 0.
C17_AsClaimed ==
    BothScored => aux_score.content_risk < risk_score.content_risk

\* C17: with one severe match, k + 1 low-tier matches never give a higher
\* content_risk than k, and give the same 100 while the average stays at or
\* above the cap: for k = 0, 1, 2 beside an extreme-tier match and for k = 0
\* beside a high-tier match.
C17_DilutionNeverRaises ==
    BothScored =>
        LET k == NamedTierMatches(scoring_system, "low_risk", text)
            extreme == NamedTierMatches(scoring_system, "extreme_risk", text) = 1
        IN  /\ aux_score.content_risk <= risk_score.content_risk
            /\ (IF extreme THEN k <= 2 ELSE k = 0)
                  <=> (aux_score.content_risk = 100 /\ risk_score.content_risk = 100)

\* C17 witness: '男最高' (one extreme, one low) and '男最高最高' (one low more)
\* were both scored 100.
C17_Witness ==
    /\ scoring_system.class = "main"
    /\ text = OTOKO \o SAIKOU
    /\ BothScored
    /\ risk_score.content_risk = 100
    /\ aux_score.content_risk = 100

\* the (factor, keyword) entries of a table whose keyword is a piece of the text
ListingsIn(table, s) ==
    { e \in UNION { { << f, k >> : k \in DOMAIN table[f] } : f \in DOMAIN table } :
        \E i \in 1..Len(s) : \E j \in i..Len(s) : SubSeq(s, i, j) = table[e[1]][e[2]] }

FactorFormula(self, s, score) ==
    /\ score.legal_risk  = Min(100, 20 * Cardinality(ListingsIn(self.legal_risk_factors, s)))
    /\ score.brand_risk  = Min(100, 15 * Cardinality(ListingsIn(self.brand_risk_factors, s)))
    /\ score.social_risk = Min(100, 10 * Cardinality(ListingsIn(self.social_risk_factors, s)))

\* C18: legal_risk, brand_risk and social_risk are min(100, increment * N)
\* with increment 20, 15 and 10, where N is the number of (factor, keyword)
\* entries of the table whose keyword is a case-sensitive substring of the
\* text: a repeated keyword adds nothing, a keyword listed under several
\* factors counts once per listing.
C18_FactorFormula ==
    /\ risk_score # NoScore => FactorFormula(scoring_system, text, risk_score)
    /\ aux_score # NoScore => FactorFormula(scoring_system, aux_text, aux_score)

\* C18 witness: '老人老人' repeats a keyword that the social table of main.py
\* lists under 批判集中 and under 人権侵害, the legal table under 差別禁止法 and
\* the brand table under 社会的責任: social_risk 20, legal_risk 20, brand_risk 15.
C18_Witness ==
    /\ scoring_system.class = "main"
    /\ aux_text = ROUJIN \o ROUJIN
    /\ Cardinality(ListingsIn(scoring_system.social_risk_factors, aux_text)) = 2
    /\ aux_score.social_risk = 20
    /\ aux_score.legal_risk = 20
    /\ aux_score.brand_risk = 15

Max4(a, b, c, d) == CHOOSE m \in { a, b, c, d } : \A x \in { a, b, c, d } : x <= m

C20_ConfidenceFormula ==
    /\ op_result # NoResult =>
          LET twice == Min(100, op_args[1]) + 20 * Min(5, op_args[2])
          IN  /\ 2 * op_result \in (twice - 1)..(twice + 1)
              /\ (op_args[1] >= 100 /\ op_args[2] >= 5) => op_result = 100
              /\ calls # NoSecondCall => calls[1].result >= op_result
    /\ risk_score # NoScore =>
          LET twice == Min(100, Len(text)) + 20 * Min(5, AllMatches(scoring_system, text))
          IN  2 * risk_score.confidence \in (twice - 1)..(twice + 1)

\* C20 witness: 100 characters with 5 matches gave 1.0, so did 101
\* characters, and '国最高国' (4 characters, 3 matches) gave 0.32.
C20_Witness ==
    /\ op_args = << 100, 5 >>
    /\ op_result = 100
    /\ calls # NoSecondCall
    /\ calls[1].args = << 101, 5 >>
    /\ calls[1].result = 100
    /\ text = KUNI \o SAIKOU \o KUNI
    /\ risk_score.confidence = 32

\* the keywords of category c that are a slice of the text, each once
CategoryHits(self, c, s) ==
    { k \in DOMAIN categories(self)[c].keywords :
        \E i \in 1..Len(s) : \E j \in i..Len(s) :
            SubSeq(s, i, j) = categories(self)[c].keywords[k] }

\* C21: _identify_category scores a category by the number of its keywords
\* that are substrings of the text, a repeated keyword counting once, and
\* the category it returns has the highest such score of all categories.
C21_ReturnsTopCategory ==
    risk_score # NoScore =>
        \E c \in DOMAIN categories(scoring_system) :
            /\ categories(scoring_system)[c].category = risk_score.category
            /\ \A d \in DOMAIN categories(scoring_system) :
                  Cardinality(CategoryHits(scoring_system, d, text))
                     <= Cardinality(CategoryHits(scoring_system, c, text))

\* C21 witness: '男性男' holds the keyword '男' twice and '男性' once; 差別的表現
\* scores 2, no other category scores, and 差別的表現 was returned.
C21_Witness ==
    /\ scoring_system.class = "main"
    /\ text = OTOKO \o SEI \o OTOKO
    /\ Cardinality(CategoryHits(scoring_system, 2, text)) = 2
    /\ risk_score # NoScore
    /\ risk_score.category = categories(scoring_system)[2].category

\* the calls of extract_keywords_advanced made so far
KeywordRuns == { i \in DOMAIN calls : calls[i].op = "extract_keywords_advanced" }

Slices(s) == { SubSeq(s, i, j) : i \in 1..Len(s), j \in 1..Len(s) }

HasMarker(keyword) == \E risk \in priority_markers : risk \in Slices(keyword)

\* w is written like an alternative of one of the patterns
IsAlternative(w, patterns, ignorecase) ==
    \E p \in DOMAIN patterns : \E a \in DOMAIN patterns[p] :
        /\ Len(w) = Len(patterns[p][a])
        /\ \A j \in 1..Len(w) : SameChar(w[j], patterns[p][a][j], ignorecase)

\* a pattern match in the text, a category label, or a run of 2+ Japanese-script characters
KeywordOrigin(w, s) ==
    \/ /\ w \in Slices(s)
       /\ \/ IsAlternative(w, [ p \in DOMAIN keyword_patterns |-> keyword_patterns[p].pattern ], TRUE)
          \/ IsAlternative(w, emotion_patterns, FALSE)
          \/ IsAlternative(w, negation_patterns, FALSE)
    \/ \E p \in DOMAIN keyword_patterns : w = keyword_patterns[p].label
    \/ /\ w \in Slices(s)
       /\ Len(w) >= 2
       /\ \A j \in 1..Len(w) : IsWordChar(w[j])

\* C22: extract_keywords_advanced returns at most 10 priority keywords (those
\* containing one of the seven markers) followed by at most 5 normal
\* keywords, at most 15 in all and none twice; every returned keyword is a
\* pattern match in the text, a category label of the pattern table or a run
\* of two or more Japanese-script characters of the text.
C22_KeywordList ==
    \A i \in KeywordRuns :
        /\ calls[i].priority \cap calls[i].normal = {}
        /\ Cardinality(calls[i].priority) <= 10
        /\ Cardinality(calls[i].normal) <= 5
        /\ Cardinality(calls[i].priority \cup calls[i].normal) <= 15
        /\ \A w \in calls[i].priority : HasMarker(w)
        /\ \A w \in calls[i].normal : ~HasMarker(w)
        /\ \A w \in calls[i].priority \cup calls[i].normal : KeywordOrigin(w, text)

\* C22 witness: '労働社会' has eleven priority keywords (eight labels, 労働, 社会
\* and the run 労働社会); ten were returned, with the two normal labels.
C22_Witness ==
    /\ text = ROUDOU_SHAKAI
    /\ KeywordRuns # {}
    /\ Cardinality({ w \in unique_keywords(text) : HasMarker(w) }) = 11
    /\ Cardinality(calls[1].priority) = 10
    /\ Cardinality(calls[1].normal) = 2

\* the calls of search_related_cases that found no keyword in the text
UnfilteredSearches ==
    { i \in DOMAIN calls : /\ calls[i].op = "search_related_cases"
                           /\ calls[i].priority \cup calls[i].normal = {} }

CategoryLabels == { keyword_patterns[p].label : p \in DOMAIN keyword_patterns }

MainCalls == IF entry = "main" THEN DOMAIN calls ELSE {}

\* C24: extract_keywords_advanced never returns an empty list, because the
\* ten category labels are collected for every text; search_related_cases of
\* main.py therefore always runs the keyword-filtered query, never the
\* most-recent fallback, and an incident whose cause category contains a
\* returned label matches the query whatever the text is.
C24_NeverUnfiltered ==
    \A i \in MainCalls :
        LET keywords == calls[i].priority \cup calls[i].normal
        IN  /\ keywords # {}
            /\ CategoryLabels \subseteq unique_keywords(text)
            /\ calls[i].op = "search_related_cases" =>
                  /\ calls[i].filtered
                  /\ \A n \in DOMAIN calls[i].rows : main_where(calls[i].rows[n], keywords)
                  /\ \A r \in enjo_cases :
                        (\E label \in keywords \cap CategoryLabels :
                            label \in Slices(r.cause_category))
                           => \/ r \in Range(calls[i].rows)
                              \/ Len(calls[i].rows) = calls[i].limit

\* C24 witness: search_related_cases('', 3) of main.py on a store holding
\* incident 1 (差別的表現) and incident 3 (炎上, no label) ran the filtered
\* query and returned incident 1 alone.
C24_Witness ==
    /\ entry = "main"
    /\ text = << >>
    /\ Len(calls) = 1
    /\ calls[1].op = "search_related_cases"
    /\ calls[1].filtered
    /\ { r.incident_id : r \in enjo_cases } = { 1, 3 }
    /\ Len(calls[1].rows) = 1
    /\ calls[1].rows[1].incident_id = 1

\* C26: the keyword list of extract_keywords_advanced is a function of the
\* text alone: two runs on the same text return the same keywords, also when
\* more than 10 priority or more than 5 normal keywords were collected.
C26_AsClaimed ==
    \A i, j \in KeywordRuns :
        /\ calls[i].priority = calls[j].priority
        /\ calls[i].normal = calls[j].normal

\* C25: with the catalog of main.py every extreme-, high- and medium-tier
\* match contributes weight * base_score >= 100, so content_risk is exactly
\* 100 for every text with a catalog match and no low-tier match, and is
\* below 100 only for a text with a low-tier match or with no match.
C25_HundredWithoutLowMatch ==
    (risk_score # NoScore /\ scoring_system.class = "main") =>
        LET all == AllMatches(scoring_system, text)
            low == NamedTierMatches(scoring_system, "low_risk", text)
        IN  /\ \A t \in DOMAIN scoring_system.risk_patterns :
                  scoring_system.risk_patterns[t].tier # "low_risk"
                     => scoring_system.risk_patterns[t].weight
                          * scoring_system.risk_patterns[t].base_score >= 100
            /\ (all >= 1 /\ low = 0) => risk_score.content_risk = 100
            /\ risk_score.content_risk < 100 => (low >= 1 \/ all = 0)

\* C25 witness: '国' alone, one medium-tier match (2.0 * 50), was scored 100.
C25_Witness ==
    /\ scoring_system.class = "main"
    /\ text = KUNI
    /\ NamedTierMatches(scoring_system, "medium_risk", text) = 1
    /\ AllMatches(scoring_system, text) = 1
    /\ risk_score.content_risk = 100

\* C27: in the simplified entry points the score stays well below the top
\* band: main_simple adds at most one +30 and at most one +15 to the base 10,
\* api/main.py adds only the increment of the first matching pattern of its
\* chain, so overall_score never exceeds 55 and the reported risk level is
\* never 高リスク (threshold 70).
C27_SimpleScoreAtMost55 ==
    (Answered /\ entry \in { "main_simple", "api" }) =>
        LET score == response.risk_score.overall_score
        IN  /\ score <= 55
            /\ risk_level(score) # "high"
            /\ entry = "main_simple" => score \in { 10, 25, 40, 55 }
            /\ entry = "api" =>
                  score \in { 10 } \cup { 10 + api_risk_chain[c].increment : c \in DOMAIN api_risk_chain }

\* C27 witness: '殺す男労働' matches two high-risk patterns and a medium-risk
\* one; main_simple answered 10 + 30 + 15 = 55, reported as 中リスク.
C27_Witness ==
    /\ Answered
    /\ entry = "main_simple"
    /\ text = KOROSU_OTOKO_ROUDOU
    /\ Cardinality({ p \in DOMAIN simple_high_risk_patterns :
                       re_search(simple_high_risk_patterns[p], text) }) = 2
    /\ response.risk_score.overall_score = 55
    /\ risk_level(response.risk_score.overall_score) = "medium"

\* the rows of the CSV file, as incidents
CsvIncidents == { CsvIncident(i) : i \in DOMAIN op_args.rows }

ImportFails ==
    \/ ~op_args.exists
    \/ ~op_args.has_required_columns
    \/ \E i \in DOMAIN op_args.rows : op_args.rows[i] = "bad"

\* C28: import_csv_to_database is all-or-nothing.  The store changes once,
\* at the commit after the last row; when the file does not exist, a
\* required column is missing or a row fails to insert, no row of the file
\* is added, the function returns False and a connection that was opened is
\* closed.
C28_ImportAllOrNothing ==
    /\ enjo_cases = calls.before \/ enjo_cases = calls.before \cup CsvIncidents
    /\ calls.pc # "done" => enjo_cases = calls.before
    /\ calls.pc = "done" =>
          /\ calls.conn \in { "none", "closed" }
          /\ calls.conn = "none" <=> ~op_args.exists
          /\ IF ImportFails
             THEN enjo_cases = calls.before /\ calls.returned = "False"
             ELSE enjo_cases = calls.before \cup CsvIncidents /\ calls.returned = "True"

\* C28 witness: the third row of a three-row file failed after two rows were
\* inserted; nothing was added, False was returned, the connection is closed.
C28_Witness ==
    /\ op_args.exists
    /\ op_args.has_required_columns
    /\ op_args.rows = << "ok", "ok", "bad" >>
    /\ calls.pc = "done"
    /\ calls.returned = "False"
    /\ calls.conn = "closed"
    /\ enjo_cases = calls.before

(***************************************************************************)
(* FeedbackLearningSystem (src/feedback_learning.py).                      *)
(*                                                                         *)
(* learning_data is the dictionary kept in feedback_data.json.  A pattern  *)
(* such as 'dangerous_クソ' is the pair of its prefix and its word.  A     *)
(* weight w is held as its natural logarithm in millionths, rounded, so    *)
(* that the repeated products by 1.1 and 0.9 are sums: no product of the   *)
(* two factors comes nearer than 0.004 (in logarithm) to either end of the *)
(* range before it is clamped, so the comparisons against 0.1 and 3.0 come *)
(* out as they do on the floats.  An accuracy is the exact fraction        *)
(* numerator / denominator; timestamps and comments are not modelled.      *)
(***************************************************************************)
MaxSaved == 22
MaxFeedback == 2

LnInitialWeight == 0
LnRaise == 95310
LnLower == 105361
LnMinWeight == -2302585
LnMaxWeight == 1098612

dangerous_words ==
    << KUSO, << 12367, 12381 >>, << 26368, 24746 >>, << 12402, 12393, 12356 >>,
       << 12480, 12513 >>, << 12384, 12417 >>, << 12420, 12400, 12356 >> >>
discriminatory_words ==
    << << 22899, 24615 >>, << 30007, 24615 >>, OTOKO, << 22899 >>, << 24615, 21029 >> >>
emotion_words ==
    << << 24594 >>, << 24754 >>, << 21916 >>, << 39514 >>, << 24656 >>, << 23244 >> >>

\* the words of one list that occur in the text, in list order, under the list's prefix
RECURSIVE patterns_of(_, _, _, _)
patterns_of(prefix, words, i, s) ==
    IF i > Len(words) THEN << >>
    ELSE (IF str_contains(words[i], s) THEN << << prefix, words[i] >> >> ELSE << >>)
         \o patterns_of(prefix, words, i + 1, s)

extract_patterns(s) ==
    patterns_of("dangerous", dangerous_words, 1, s)
    \o patterns_of("discriminatory", discriminatory_words, 1, s)
    \o patterns_of("emotion", emotion_words, 1, s)

\* mutant: the weight is stored as the product left it
clamp_weight_unclamped(w) == w

\* max(0.1, min(3.0, w))
clamp_weight(w) ==
    LET capped == IF w <= LnMaxWeight THEN w ELSE LnMaxWeight
    IN  IF capped >= LnMinWeight THEN capped ELSE LnMinWeight

\* the body of the loop of _update_pattern_weights for one pattern
adjust_pattern(weights, pattern, predicted_score, user_score) ==
    LET started    == IF pattern \in DOMAIN weights THEN weights[pattern] ELSE LnInitialWeight
        score_diff == user_score - predicted_score
        adjusted   == IF score_diff > 0 THEN started + LnRaise
                      ELSE IF score_diff < 0 THEN started - LnLower
                      ELSE started
    IN  [ p \in DOMAIN weights \cup { pattern } |->
            IF p = pattern THEN clamp_weight(adjusted) ELSE weights[p] ]

RECURSIVE adjust_from(_, _, _, _, _)
adjust_from(weights, patterns, i, predicted_score, user_score) ==
    IF i > Len(patterns) THEN weights
    ELSE adjust_from(adjust_pattern(weights, patterns[i], predicted_score, user_score),
                     patterns, i + 1, predicted_score, user_score)

update_pattern_weights(weights, s, predicted_score, user_score) ==
    adjust_from(weights, extract_patterns(s), 1, predicted_score, user_score)

abs(n) == IF n < 0 THEN 0 - n ELSE n

RECURSIVE total_difference(_)
total_difference(corrections) ==
    IF corrections = << >> THEN 0
    ELSE Head(corrections).score_difference + total_difference(Tail(corrections))

\* mutant: 100 - average_error, without max(0, ...)
calculate_accuracy_unfloored(corrections) ==
    IF corrections = << >> THEN [ numerator |-> 0, denominator |-> 1 ]
    ELSE [ numerator   |-> 100 * Len(corrections) - total_difference(corrections),
           denominator |-> Len(corrections) ]

\* max(0, 100 - total_difference / total_feedback), as a fraction over total_feedback
calculate_accuracy(corrections) ==
    IF corrections = << >> THEN [ numerator |-> 0, denominator |-> 1 ]
    ELSE LET total_feedback == Len(corrections)
             remainder      == 100 * total_feedback - total_difference(corrections)
         IN  [ numerator   |-> IF remainder > 0 THEN remainder ELSE 0,
               denominator |-> total_feedback ]

\* learning_data after add_feedback(text, predicted_score, user_score)
add_feedback(data, s, predicted_score, user_score) ==
    LET feedback    == [ text |-> s, predicted_score |-> predicted_score,
                         user_score |-> user_score,
                         score_difference |-> abs(predicted_score - user_score) ]
        corrections == Append(data.user_corrections, feedback)
        count       == data.feedback_count + 1
    IN  [ feedback_count   |-> count,
          user_corrections |-> corrections,
          accuracy_history |-> Append(data.accuracy_history,
                                      [ accuracy |-> calculate_accuracy(corrections),
                                        feedback_count |-> count ]),
          pattern_weights  |-> update_pattern_weights(data.pattern_weights, s,
                                                      predicted_score, user_score) ]

\* the texts and the (predicted_score, user_score) pairs of the calls: no pattern,
\* one pattern, two patterns; equal scores, user above, user below by more than 100
DANSEI == OTOKO \o SEI
FeedbackTexts == { SEI, KUSO, DANSEI }
ScorePairs == { << 50, 50 >>, << 20, 80 >>, << 250, 0 >> }

\* feedback_data.json as earlier sessions left it: the empty store, or the store
\* after k calls with the same text and scores
RECURSIVE Replayed(_, _, _, _)
Replayed(data, k, s, scores) ==
    IF k = 0 THEN data
    ELSE Replayed(add_feedback(data, s, scores[1], scores[2]), k - 1, s, scores)

SavedStores ==
    { Replayed(EmptyLearningData, k, KUSO, scores) :
        k \in 0..MaxSaved, scores \in { << 20, 80 >>, << 250, 0 >> } }

InitFeedback ==
    /\ scoring_system = MainScoringSystem
    /\ text = NoText
    /\ NoCalls
    /\ entry = "feedback_learning"
    /\ db_status = "ok"
    /\ enjo_cases = {}
    /\ response = NoResponse
    /\ invoked = {}
    /\ calls = << >>
    /\ op_args = NoArgs
    /\ op_result = NoResult
    /\ learning_data \in SavedStores

\* feedback_system.add_feedback(text, predicted_score, user_score): returns True
AddFeedback ==
    /\ entry = "feedback_learning"
    /\ Len(calls) < MaxFeedback
    /\ \E s \in FeedbackTexts, scores \in ScorePairs :
          /\ learning_data' = add_feedback(learning_data, s, scores[1], scores[2])
          /\ calls' = Append(calls, [ text |-> s, predicted_score |-> scores[1],
                                      user_score |-> scores[2], returned |-> TRUE ])
    /\ UNCHANGED << scoring_system, text, risk_score, first_score, recommendations, aux_text,
                    aux_score, recalled, entry, db_status, enjo_cases, response, invoked,
                    op_args, op_result >>

NextFeedback == AddFeedback

SpecFeedback == InitFeedback /\ [][NextFeedback]_vars

\* the call that produced the current store, and the stores around it
LastCall == calls[Len(calls)]
IsWeight(w) == LnMinWeight <= w /\ w <= LnMaxWeight
WeightsInRange(weights) == \A p \in DOMAIN weights : IsWeight(weights[p])
AsStated(started, c) ==
    LET moved == IF c.user_score > c.predicted_score THEN started + LnRaise
                 ELSE IF c.user_score < c.predicted_score THEN started - LnLower
                 ELSE started
    IN  IF moved > LnMaxWeight THEN LnMaxWeight
        ELSE IF moved < LnMinWeight THEN LnMinWeight ELSE moved
WeightsStep ==
    calls' # calls =>
        LET c   == calls'[Len(calls')]
            old == learning_data.pattern_weights
            new == learning_data'.pattern_weights
        IN  \A p \in DOMAIN new :
                IF p \in Range(extract_patterns(c.text))
                THEN new[p] = AsStated(IF p \in DOMAIN old THEN old[p] ELSE LnInitialWeight, c)
                ELSE p \in DOMAIN old /\ new[p] = old[p]

\* C29: after any sequence of add_feedback calls every stored pattern weight lies
\* in [0.1, 3.0]; each call takes the weight of every pattern of its text from its
\* stored value, or from 1.0 if it had none, multiplies it by 1.1 when the user's
\* score is above the predicted one, by 0.9 when it is below, leaves it when they
\* are equal, and clamps it to the range; the other weights are left alone.
C29_WeightsInRange ==
    /\ [](entry = "feedback_learning" => WeightsInRange(learning_data.pattern_weights))
    /\ [][entry = "feedback_learning" => WeightsStep]_vars

\* a call with the user's score above the predicted one met a weight that was within
\* one step of 3.0, and the stored weight is 3.0
C29_Witness ==
    /\ entry = "feedback_learning"
    /\ calls # << >>
    /\ LastCall.text = KUSO
    /\ LastCall.user_score > LastCall.predicted_score
    /\ learning_data.feedback_count = 12
    /\ learning_data.pattern_weights[<< "dangerous", KUSO >>] = LnMaxWeight

IsAccuracy(a) == a.denominator > 0 /\ 0 <= a.numerator /\ a.numerator <= 100 * a.denominator
CountsAgree(data) ==
    /\ data.feedback_count = Len(data.user_corrections)
    /\ data.feedback_count = Len(data.accuracy_history)
    /\ \A i \in DOMAIN data.accuracy_history : IsAccuracy(data.accuracy_history[i].accuracy)
CountsStep ==
    calls' # calls =>
        /\ learning_data'.feedback_count = learning_data.feedback_count + 1
        /\ Len(learning_data'.user_corrections) = Len(learning_data.user_corrections) + 1
        /\ Len(learning_data'.accuracy_history) = Len(learning_data.accuracy_history) + 1
        /\ SubSeq(learning_data'.user_corrections, 1, Len(learning_data.user_corrections))
              = learning_data.user_corrections
        /\ SubSeq(learning_data'.accuracy_history, 1, Len(learning_data.accuracy_history))
              = learning_data.accuracy_history

\* C30: starting from the empty store, after any sequence of add_feedback calls
\* feedback_count equals the number of user_corrections and the number of
\* accuracy_history entries, and every recorded accuracy is between 0 and 100;
\* each call appends exactly one entry to each list and adds one to the count.
C30_CountsAgree ==
    /\ [](entry = "feedback_learning" => CountsAgree(learning_data))
    /\ [][entry = "feedback_learning" => CountsStep]_vars

\* two calls on the empty store, the second with scores more than 100 apart, so that
\* 100 - average_error is negative and the recorded accuracy is 0
C30_Witness ==
    /\ entry = "feedback_learning"
    /\ Len(calls) = 2
    /\ learning_data.feedback_count = 2
    /\ LastCall.predicted_score - LastCall.user_score > 100
    /\ learning_data.accuracy_history[2].accuracy.numerator = 0
    /\ learning_data.accuracy_history[1].accuracy.numerator > 0

====
